---- MODULE Spec2Model ----
(***************************************************************************)
(* Model of react-native-markdown-editor: the syntax highlighter           *)
(* (markdownHighlight), the markdown parser (markdownParser), the shared   *)
(* token utilities (markdownSyntaxUtils), the toolbar action transformer   *)
(* (markdownToolbarActions) and the selection handling of the hook         *)
(* useMarkdownEditor.                                                      *)
(*                                                                         *)
(* A JavaScript string is a sequence of one-character strings; indices     *)
(* are 0-based as in the source, and At/Slice translate them.              *)
(***************************************************************************)
EXTENDS Integers, Sequences, FiniteSets, TLC

VARIABLES
    markdown,             \* argument `markdown` of highlightMarkdown / parseMarkdown
    features,             \* argument `features` (Undefined or a list of actions)
    entry,                \* the entry point called on them, "none" before the call
    result,               \* the value that call returned
    text,                 \* editor text handed to applyMarkdownToolbarAction
    selection,            \* editor selection {start, end}
    activeInlineActions,  \* editor list of open inline actions
    call,                 \* parameters of the last applyMarkdownToolbarAction call
    hook                  \* refs of useMarkdownEditor and its pending frame callbacks

vars == <<markdown, features, entry, result, text, selection, activeInlineActions, call,
          hook>>

coreVars == <<markdown, features, entry, result>>

tbVars == <<text, selection, activeInlineActions, call>>

(***************************************************************************)
(* JavaScript string primitives                                            *)
(***************************************************************************)

\* s[i] of an index outside the string is undefined: a value equal to no character.
NoChar == ""

\* The grave accent (U+0060), which a TLA+ string literal cannot hold.
Backtick == "GRAVE"

\* The absent optional argument `features`: a value that is no list of actions.
Undefined == <<"undefined">>

Min(a, b) == IF a < b THEN a ELSE b

Max(a, b) == IF a > b THEN a ELSE b

At(s, i) == IF i >= 0 /\ i < Len(s) THEN s[i + 1] ELSE NoChar

Slice(s, a, b) ==
    LET lo == Max(0, Min(a, Len(s)))
        hi == Max(0, Min(b, Len(s)))
    IN IF lo >= hi THEN <<>> ELSE SubSeq(s, lo + 1, hi)

StartsWith(s, token, position) == Slice(s, position, position + Len(token)) = token

\* The characters the regular-expression class \s matches.
Whitespace == {" ", "\t", "\n", "\r", "\f"}

\* The characters the regular-expression class . does not match.
LineTerminators == {"\n", "\r"}

\* The characters of the class \d.
Digits == {"0", "1", "2", "3", "4", "5", "6", "7", "8", "9"}

\* The characters of the class [\w-] the model's inputs use.
Letters ==
    {"a", "b", "c", "d", "e", "f", "g", "h", "i", "j", "k", "l", "m", "n", "o", "p", "q",
     "r", "s", "t", "u", "v", "w", "x", "y", "z",
     "A", "B", "C", "D", "E", "F", "G", "H", "I", "J", "K", "L", "M", "N", "O", "P", "Q",
     "R", "S", "T", "U", "V", "W", "X", "Y", "Z"}

WordChars == Digits \cup Letters \cup {"_", "-"}

\* Index of the first character at or after i that is not in set S (Len(s) if none):
\* the end of a greedy run S* started at i.
RECURSIVE RunEnd(_, _, _)
RunEnd(s, i, S) ==
    IF i < Len(s) /\ s[i + 1] \in S THEN RunEnd(s, i + 1, S) ELSE i

\* Index where a greedy (.*) started at i stops.
RECURSIVE DotEnd(_, _)
DotEnd(s, i) ==
    IF i < Len(s) /\ s[i + 1] \notin LineTerminators THEN DotEnd(s, i + 1) ELSE i

\* String.prototype.trim
RECURSIVE TrimEndIndex(_, _)
TrimEndIndex(s, j) ==
    IF j > 0 /\ s[j] \in Whitespace THEN TrimEndIndex(s, j - 1) ELSE j

Trim(s) ==
    LET lo == RunEnd(s, 0, Whitespace)
        hi == TrimEndIndex(s, Len(s))
    IN Slice(s, lo, hi)

\* String.prototype.split('\n')
RECURSIVE SplitFrom(_, _, _)
SplitFrom(s, i, current) ==
    IF i >= Len(s) THEN <<current>>
    ELSE IF s[i + 1] = "\n" THEN <<current>> \o SplitFrom(s, i + 1, <<>>)
    ELSE SplitFrom(s, i + 1, Append(current, s[i + 1]))

SplitLines(s) == SplitFrom(s, 0, <<>>)

\* Array.prototype.join('\n')
RECURSIVE JoinLines(_)
JoinLines(lines) ==
    IF Len(lines) = 0 THEN <<>>
    ELSE IF Len(lines) = 1 THEN lines[1]
    ELSE lines[1] \o <<"\n">> \o JoinLines(Tail(lines))

Includes(list, x) == \E i \in 1..Len(list) : list[i] = x

(***************************************************************************)
(* markdownSyntaxUtils                                                     *)
(***************************************************************************)

RECURSIVE CountBackslashes(_, _)
CountBackslashes(value, cursor) ==
    IF cursor >= 0 /\ At(value, cursor) = "\\"
    THEN 1 + CountBackslashes(value, cursor - 1)
    ELSE 0

\* isEscaped counting no backslash.
isEscapedNever(value, index) == FALSE

isEscaped(value, index) == CountBackslashes(value, index - 1) % 2 = 1

RECURSIVE FindTokenFrom(_, _, _)
FindTokenFrom(input, token, index) ==
    IF index > Len(input) - Len(token) THEN -1
    ELSE IF Slice(input, index, index + Len(token)) # token
         THEN FindTokenFrom(input, token, index + 1)
    ELSE IF ~isEscaped(input, index) THEN index
    ELSE FindTokenFrom(input, token, index + 1)

findUnescapedToken(input, token, startIndex) ==
    IF Len(token) = 0 THEN -1 ELSE FindTokenFrom(input, token, startIndex)

HeadingFeatures ==
    {"heading", "heading1", "heading2", "heading3", "heading4", "heading5", "heading6"}

\* isMarkdownFeatureEnabled ignoring the feature list.
isMarkdownFeatureEnabledAlways(fs, feature) == TRUE

isMarkdownFeatureEnabled(fs, feature) ==
    IF fs = Undefined THEN TRUE
    ELSE IF feature = "heading" THEN \E i \in 1..Len(fs) : fs[i] \in HeadingFeatures
    ELSE Includes(fs, feature)

HeadingName(level) ==
    CASE level = 1 -> "heading1"
      [] level = 2 -> "heading2"
      [] level = 3 -> "heading3"
      [] level = 4 -> "heading4"
      [] level = 5 -> "heading5"
      [] level = 6 -> "heading6"
      [] OTHER -> "heading?"

\* isHeadingLevelEnabled taking any heading feature for every level.
isHeadingLevelEnabledByAny(fs, level) ==
    fs = Undefined \/ \E i \in 1..Len(fs) : fs[i] \in HeadingFeatures

isHeadingLevelEnabled(fs, level) ==
    IF fs = Undefined THEN TRUE
    ELSE IF Includes(fs, "heading") THEN TRUE
    ELSE Includes(fs, HeadingName(level))

\* The match of /^(.+?)\s+(?:"([^"]*)"|'([^']*)')$/ at split index i of `trimmed`:
\* group 1 is trimmed[0, i), the whitespace run starts at i, the quoted title ends
\* the string.
TitleMatchAt(trimmed, i) ==
    LET n == Len(trimmed)
        j == RunEnd(trimmed, i, Whitespace)
        q == At(trimmed, j)
    IN /\ i >= 1
       /\ DotEnd(trimmed, 0) >= i
       /\ j > i
       /\ q \in {"\"", "'"}
       /\ n - 1 > j
       /\ trimmed[n] = q
       /\ \A k \in (j + 1)..(n - 2) : trimmed[k + 1] # q

\* The lazy (.+?) takes the shortest group 1 that lets the rest match.
RECURSIVE TitleSplit(_, _)
TitleSplit(trimmed, i) ==
    IF i >= Len(trimmed) THEN -1
    ELSE IF TitleMatchAt(trimmed, i) THEN i
    ELSE TitleSplit(trimmed, i + 1)

\* The characters of the class [\\`*_~[\]()#+.!>{}-] of ESCAPED_MARKDOWN_PATTERN.
EscapableChars ==
    {"\\", Backtick, "*", "_", "~", "[", "]", "(", ")", "#", "+", ".", "!", ">", "{", "}", "-"}

\* value.replace(ESCAPED_MARKDOWN_PATTERN, '$1'): a left-to-right scan of
\* non-overlapping matches.
RECURSIVE UnescapeFrom(_, _)
UnescapeFrom(value, i) ==
    IF i >= Len(value) THEN <<>>
    ELSE IF value[i + 1] = "\\" /\ At(value, i + 1) \in EscapableChars
    THEN <<At(value, i + 1)>> \o UnescapeFrom(value, i + 2)
    ELSE <<value[i + 1]>> \o UnescapeFrom(value, i + 1)

unescapeMarkdown(value) == UnescapeFrom(value, 0)

\* title is a list: empty when the source has no title (undefined), else the title.
parseImageSourceAndTitle(raw, unescapeSrc) ==
    LET trimmed == Trim(raw)
        i == TitleSplit(trimmed, 1)
        j == RunEnd(trimmed, i, Whitespace)
        g1 == Trim(Slice(trimmed, 0, i))
    IN IF i # -1
       THEN [src |-> IF unescapeSrc THEN unescapeMarkdown(g1) ELSE g1,
             title |-> <<Slice(trimmed, j + 1, Len(trimmed) - 1)>>]
       ELSE [src |-> IF unescapeSrc THEN unescapeMarkdown(trimmed) ELSE trimmed,
             title |-> <<>>]

(***************************************************************************)
(* markdownHighlight: inline parser                                        *)
(***************************************************************************)

NoContext == [bold |-> FALSE, italic |-> FALSE, strikethrough |-> FALSE]

RawSegment(value, type, context) ==
    [text |-> value, type |-> type, bold |-> context.bold,
     italic |-> context.italic, strikethrough |-> context.strikethrough]

Delimiter(value) == RawSegment(value, "delimiter", NoContext)

\* The closure appendText of parseInlineHighlight.
appendSegmentText(segs, value, type, context) ==
    IF value = <<>> THEN segs
    ELSE IF /\ Len(segs) > 0
            /\ segs[Len(segs)].type = type
            /\ segs[Len(segs)].bold = context.bold
            /\ segs[Len(segs)].italic = context.italic
            /\ segs[Len(segs)].strikethrough = context.strikethrough
         THEN [segs EXCEPT ![Len(segs)].text = @ \o value]
    ELSE Append(segs, RawSegment(value, type, context))

Token(kind, next, open, close, close2) ==
    [kind |-> kind, next |-> next, open |-> open, close |-> close, close2 |-> close2]

\* One iteration of the while loop of parseInlineHighlight: the branch taken at
\* cursor, the value the iteration leaves in cursor (next), the length of the
\* opening marker and the indices of the closers it found.
HighlightToken(content, cursor, fs) ==
    LET c == At(content, cursor)
        codeClose == findUnescapedToken(content, <<Backtick>>, cursor + 1)
        boldMarker == Slice(content, cursor, cursor + 2)
        boldClose == findUnescapedToken(content, boldMarker, cursor + 2)
        strikeClose == findUnescapedToken(content, <<"~", "~">>, cursor + 2)
        italicClose == findUnescapedToken(content, <<c>>, cursor + 1)
        altClose == findUnescapedToken(content, <<"]">>, cursor + 2)
        srcClose == findUnescapedToken(content, <<")">>, altClose + 2)
        labelClose == findUnescapedToken(content, <<"]">>, cursor + 1)
        hrefClose == findUnescapedToken(content, <<")">>, labelClose + 2)
        imageComplete ==
            altClose # -1 /\ At(content, altClose + 1) = "(" /\ srcClose # -1
    IN IF c = "\\" /\ cursor + 1 < Len(content)
       THEN Token("escape", cursor + 2, 1, -1, -1)
       ELSE IF isMarkdownFeatureEnabled(fs, "code") /\ c = Backtick /\ codeClose # -1
       THEN Token("code", codeClose + 1, 1, codeClose, -1)
       ELSE IF /\ isMarkdownFeatureEnabled(fs, "bold")
               /\ (StartsWith(content, <<"*", "*">>, cursor)
                   \/ StartsWith(content, <<"_", "_">>, cursor))
               /\ boldClose # -1
       THEN Token("bold", boldClose + 2, 2, boldClose, -1)
       ELSE IF /\ isMarkdownFeatureEnabled(fs, "strikethrough")
               /\ StartsWith(content, <<"~", "~">>, cursor)
               /\ strikeClose # -1
       THEN Token("strikethrough", strikeClose + 2, 2, strikeClose, -1)
       ELSE IF /\ isMarkdownFeatureEnabled(fs, "italic")
               /\ (c = "*" \/ c = "_")
               /\ italicClose # -1
       THEN Token("italic", italicClose + 1, 1, italicClose, -1)
       ELSE IF /\ c = "!" /\ At(content, cursor + 1) = "["
               /\ isMarkdownFeatureEnabled(fs, "image")
               /\ imageComplete
       THEN Token("image", srcClose + 1, 2, altClose, srcClose)
       ELSE IF /\ c = "!" /\ At(content, cursor + 1) = "["
               /\ ~isMarkdownFeatureEnabled(fs, "image")
       THEN IF imageComplete
            THEN Token("imageText", srcClose + 1, 2, altClose, srcClose)
            ELSE Token("bang", cursor + 1, 1, -1, -1)
       ELSE IF /\ c = "["
               /\ labelClose # -1
               /\ At(content, labelClose + 1) = "("
               /\ hrefClose # -1
       THEN Token("link", hrefClose + 1, 1, labelClose, hrefClose)
       ELSE Token("char", cursor + 1, 1, -1, -1)

\* The image segment pushed at lines 343-354.
ImageSegment(content, cursor, tok, context) ==
    LET alt == Slice(content, cursor + 2, tok.close)
        rawUrl == Trim(Slice(content, tok.close + 2, tok.close2))
        parsed == parseImageSourceAndTitle(rawUrl, FALSE)
        meta == IF parsed.title # <<>> /\ parsed.title[1] # <<>>
                THEN [src |-> parsed.src, alt |-> alt, title |-> parsed.title[1]]
                ELSE [src |-> parsed.src, alt |-> alt]
    IN [text |-> Slice(content, cursor, tok.close2 + 1), type |-> "image-alt",
        bold |-> context.bold, italic |-> context.italic,
        strikethrough |-> context.strikethrough, meta |-> meta]

InnerContext(kind, context) ==
    CASE kind = "bold" -> [context EXCEPT !.bold = TRUE]
      [] kind = "strikethrough" -> [context EXCEPT !.strikethrough = TRUE]
      [] kind = "italic" -> [context EXCEPT !.italic = TRUE]
      [] OTHER -> context

RECURSIVE parseInlineHighlight(_, _, _)
RECURSIVE HighlightLoop(_, _, _, _, _)

\* The segments array after the iteration at `cursor`.
HighlightEmit(segs, content, cursor, tok, context, fs) ==
    LET marker == Slice(content, cursor, cursor + tok.open)
    IN CASE tok.kind = "escape" ->
              appendSegmentText(Append(segs, Delimiter(<<"\\">>)),
                                <<At(content, cursor + 1)>>, "text", context)
         [] tok.kind = "code" ->
              segs \o <<Delimiter(<<Backtick>>),
                        RawSegment(Slice(content, cursor + 1, tok.close), "code", NoContext),
                        Delimiter(<<Backtick>>)>>
         [] tok.kind \in {"bold", "strikethrough", "italic"} ->
              segs \o <<Delimiter(marker)>>
                   \o parseInlineHighlight(Slice(content, cursor + tok.open, tok.close),
                                           InnerContext(tok.kind, context), fs)
                   \o <<Delimiter(marker)>>
         [] tok.kind = "image" ->
              Append(segs, ImageSegment(content, cursor, tok, context))
         [] tok.kind = "imageText" ->
              appendSegmentText(segs, Slice(content, cursor, tok.close2 + 1), "text", context)
         [] tok.kind = "bang" ->
              appendSegmentText(segs, <<"!">>, "text", context)
         [] tok.kind = "link" ->
              segs \o <<RawSegment(<<"[">>, "delimiter", context),
                        RawSegment(Slice(content, cursor + 1, tok.close), "link-label", context),
                        RawSegment(<<"]", "(">>, "delimiter", context),
                        RawSegment(Slice(content, tok.close + 2, tok.close2), "link-url", context),
                        RawSegment(<<")">>, "delimiter", context)>>
         [] OTHER ->
              appendSegmentText(segs, <<At(content, cursor)>>, "text", context)

HighlightLoop(content, cursor, segs, context, fs) ==
    IF cursor >= Len(content) THEN segs
    ELSE LET tok == HighlightToken(content, cursor, fs)
         IN HighlightLoop(content, tok.next,
                          HighlightEmit(segs, content, cursor, tok, context, fs),
                          context, fs)

parseInlineHighlight(content, context, fs) ==
    HighlightLoop(content, 0, <<>>, context, fs)

(***************************************************************************)
(* markdownHighlight: block patterns and highlightMarkdown                 *)
(***************************************************************************)

NoMatch == [matched |-> FALSE, g1 |-> <<>>, g2 |-> <<>>]

Match(g1, g2) == [matched |-> TRUE, g1 |-> g1, g2 |-> g2]

\* HEADING_RE without the upper bound on the number of '#'.
HEADING_RE_Unbounded(line) ==
    LET n == RunEnd(line, 0, {"#"})
        w == RunEnd(line, n, Whitespace)
    IN IF n >= 1 /\ w > n
       THEN Match(Slice(line, 0, n), Slice(line, w, DotEnd(line, w)))
       ELSE NoMatch

\* /^(#{1,6})\s+(.*)/
HEADING_RE(line) ==
    LET n == RunEnd(line, 0, {"#"})
        w == RunEnd(line, n, Whitespace)
    IN IF n >= 1 /\ n <= 6 /\ w > n
       THEN Match(Slice(line, 0, n), Slice(line, w, DotEnd(line, w)))
       ELSE NoMatch

\* /^(>\s?)(.*)/
BLOCKQUOTE_RE(line) ==
    LET m == IF At(line, 1) \in Whitespace THEN 2 ELSE 1
    IN IF At(line, 0) = ">"
       THEN Match(Slice(line, 0, m), Slice(line, m, DotEnd(line, m)))
       ELSE NoMatch

\* /^ {0,3}([-*_])[ \t]*(?:\1[ \t]*){2,}$/
HORIZONTAL_RULE_RE(line) ==
    LET lead == RunEnd(line, 0, {" "})
        c == At(line, lead)
    IN /\ lead <= 3
       /\ c \in {"-", "*", "_"}
       /\ RunEnd(line, lead, {c, " ", "\t"}) = Len(line)
       /\ Cardinality({k \in lead..(Len(line) - 1) : line[k + 1] = c}) >= 3

\* /^(\s*[-*+]\s+)(.*)/
UNORDERED_LIST_RE(line) ==
    LET a == RunEnd(line, 0, Whitespace)
        b == RunEnd(line, a + 1, Whitespace)
    IN IF At(line, a) \in {"-", "*", "+"} /\ b > a + 1
       THEN Match(Slice(line, 0, b), Slice(line, b, DotEnd(line, b)))
       ELSE NoMatch

\* /^(\s*\d+\.\s+)(.*)/
ORDERED_LIST_RE(line) ==
    LET a == RunEnd(line, 0, Whitespace)
        d == RunEnd(line, a, Digits)
        b == RunEnd(line, d + 1, Whitespace)
    IN IF d > a /\ At(line, d) = "." /\ b > d + 1
       THEN Match(Slice(line, 0, b), Slice(line, b, DotEnd(line, b)))
       ELSE NoMatch

\* /^```/
CODE_FENCE_RE(line) == StartsWith(line, <<Backtick, Backtick, Backtick>>, 0)

DigitChar(d) ==
    CASE d = 0 -> "0" [] d = 1 -> "1" [] d = 2 -> "2" [] d = 3 -> "3" [] d = 4 -> "4"
      [] d = 5 -> "5" [] d = 6 -> "6" [] d = 7 -> "7" [] d = 8 -> "8" [] OTHER -> "9"

\* String(n) and the template literal ${n} of a non-negative integer.
RECURSIVE ToDecimal(_)
ToDecimal(n) ==
    IF n < 10 THEN <<DigitChar(n)>>
    ELSE ToDecimal(n \div 10) \o <<DigitChar(n % 10)>>

resolveInlineSegmentType(seg, baseTextType) ==
    CASE seg.type = "delimiter" -> "delimiter"
      [] seg.type = "code" -> "code"
      [] seg.type = "link-label" -> "link"
      [] seg.type = "link-url" -> "linkUrl"
      [] seg.type = "image-alt" -> "image"
      [] OTHER -> IF seg.bold THEN "bold"
                  ELSE IF seg.italic THEN "italic"
                  ELSE IF seg.strikethrough THEN "strikethrough"
                  ELSE baseTextType

\* Options of appendInlineSegments; meta is a list holding the record, or empty.
Options(baseTextType, meta) == [baseTextType |-> baseTextType, meta |-> meta]

PlainOptions == Options("text", <<>>)

\* The segment appendInlineSegments pushes for one raw inline segment.
InlineSegment(seg, options) ==
    LET type == resolveInlineSegmentType(seg, options.baseTextType)
        segMeta == IF "meta" \in DOMAIN seg THEN <<seg.meta>> ELSE <<>>
    IN IF options.meta = <<>> /\ segMeta = <<>>
       THEN [text |-> seg.text, type |-> type]
       ELSE IF options.meta = <<>>
       THEN [text |-> seg.text, type |-> type, meta |-> segMeta[1]]
       ELSE IF segMeta = <<>>
       THEN [text |-> seg.text, type |-> type, meta |-> options.meta[1]]
       ELSE [text |-> seg.text, type |-> type, meta |-> segMeta[1] @@ options.meta[1]]

appendInlineSegments(segs, content, options, fs) ==
    LET inlineSegs == parseInlineHighlight(content, NoContext, fs)
    IN segs \o [k \in 1..Len(inlineSegs) |-> InlineSegment(inlineSegs[k], options)]

LineResult(segs, inCodeBlock, prevLineMeta) ==
    [segs |-> segs, inCodeBlock |-> inCodeBlock, prevLineMeta |-> prevLineMeta]

\* The body of the for loop of highlightMarkdown after the newline segment: the
\* segments pushed for `line`, and inCodeBlock and prevLineMeta after the iteration.
HighlightLine(segs, line, inCodeBlock, fs) ==
    LET headingMatch == HEADING_RE(line)
        level == Len(headingMatch.g1)
        headingMeta == [lineContext |-> "heading", headingLevel |-> ToDecimal(level)]
        quoteMatch == BLOCKQUOTE_RE(line)
        quoteMeta == [lineContext |-> "quote"]
        ulMatch == UNORDERED_LIST_RE(line)
        olMatch == ORDERED_LIST_RE(line)
    IN IF isMarkdownFeatureEnabled(fs, "codeBlock") /\ CODE_FENCE_RE(line)
       THEN LineResult(Append(segs, [text |-> line, type |-> "delimiter",
                                     meta |-> [lineContext |-> "codeFence"]]),
                       ~inCodeBlock, <<>>)
       ELSE IF inCodeBlock
       THEN LineResult(Append(segs, [text |-> line, type |-> "codeBlock"]),
                       inCodeBlock, <<>>)
       ELSE IF /\ headingMatch.matched
               /\ ~isEscaped(line, 0)
               /\ isHeadingLevelEnabled(fs, level)
       THEN LineResult(
                appendInlineSegments(
                    Append(segs, [text |-> headingMatch.g1 \o <<" ">>,
                                  type |-> "delimiter", meta |-> headingMeta]),
                    headingMatch.g2, Options("heading", <<headingMeta>>), fs),
                inCodeBlock, <<headingMeta>>)
       ELSE IF isMarkdownFeatureEnabled(fs, "divider") /\ HORIZONTAL_RULE_RE(line)
       THEN LineResult(Append(segs, [text |-> line, type |-> "horizontalRule"]),
                       inCodeBlock, <<>>)
       ELSE IF isMarkdownFeatureEnabled(fs, "quote") /\ quoteMatch.matched
       THEN LineResult(
                appendInlineSegments(
                    Append(segs, [text |-> quoteMatch.g1, type |-> "quoteMarker",
                                  meta |-> quoteMeta]),
                    quoteMatch.g2, Options("quote", <<quoteMeta>>), fs),
                inCodeBlock, <<>>)
       ELSE IF isMarkdownFeatureEnabled(fs, "unorderedList") /\ ulMatch.matched
       THEN LineResult(
                appendInlineSegments(
                    Append(segs, [text |-> ulMatch.g1, type |-> "listMarker"]),
                    ulMatch.g2, PlainOptions, fs),
                inCodeBlock, <<>>)
       ELSE IF isMarkdownFeatureEnabled(fs, "orderedList") /\ olMatch.matched
       THEN LineResult(
                appendInlineSegments(
                    Append(segs, [text |-> olMatch.g1, type |-> "listMarker"]),
                    olMatch.g2, PlainOptions, fs),
                inCodeBlock, <<>>)
       ELSE LineResult(appendInlineSegments(segs, line, PlainOptions, fs),
                       inCodeBlock, <<>>)

\* The newline segment as a text segment whatever line precedes it.
NewlineSegmentAlwaysText(prevLineMeta) ==
    [text |-> <<"\n">>, type |-> "text"]

\* The newline segment pushed before line i > 0.
NewlineSegment(prevLineMeta) ==
    IF prevLineMeta # <<>> /\ prevLineMeta[1].lineContext = "heading"
    THEN [text |-> <<"\n">>, type |-> "heading", meta |-> prevLineMeta[1]]
    ELSE [text |-> <<"\n">>, type |-> "text"]

RECURSIVE HighlightLines(_, _, _, _)
HighlightLines(lines, i, st, fs) ==
    IF i >= Len(lines) THEN st.segs
    ELSE HighlightLines(lines, i + 1,
                        HighlightLine(IF i > 0
                                      THEN Append(st.segs, NewlineSegment(st.prevLineMeta))
                                      ELSE st.segs,
                                      lines[i + 1], st.inCodeBlock, fs),
                        fs)

highlightMarkdown(md, fs) ==
    HighlightLines(SplitLines(md), 0, LineResult(<<>>, FALSE, <<>>), fs)

(***************************************************************************)
(* markdownParser: inline parser                                           *)
(***************************************************************************)

TextNode(content) == [type |-> "text", content |-> content]

\* appendText starting a new Text node for every value.
appendTextUnmerged(nodes, value) ==
    IF value = <<>> THEN nodes ELSE Append(nodes, TextNode(value))

\* The closure appendText of parseMarkdownInline.
appendText(nodes, value) ==
    IF value = <<>> THEN nodes
    ELSE IF Len(nodes) > 0 /\ nodes[Len(nodes)].type = "text"
    THEN [nodes EXCEPT ![Len(nodes)].content = @ \o value]
    ELSE Append(nodes, TextNode(value))

\* parseMarkdownInline with the fallback branch at lines 284-287 appending the
\* character without advancing cursor.
InlineTokenStalled(content, cursor, fs) ==
    LET c == At(content, cursor)
    IN IF c = "\\" /\ cursor + 1 < Len(content)
       THEN Token("escape", cursor + 2, 1, -1, -1)
       ELSE Token("char", cursor, 1, -1, -1)

\* One iteration of the while loop of parseMarkdownInline: the branch taken at
\* cursor, the value the iteration leaves in cursor (next), the length of the
\* opening marker and the indices of the closers it found.
InlineToken(content, cursor, fs) ==
    LET c == At(content, cursor)
        codeClose == findUnescapedToken(content, <<Backtick>>, cursor + 1)
        marker == Slice(content, cursor, cursor + 2)
        boldClose == findUnescapedToken(content, marker, cursor + Len(marker))
        strikeClose == findUnescapedToken(content, <<"~", "~">>, cursor + 2)
        italicClose == findUnescapedToken(content, <<c>>, cursor + 1)
        altClosingIndex == findUnescapedToken(content, <<"]">>, cursor + 2)
        srcOpenIndex == altClosingIndex + 1
        srcClosingIndex == findUnescapedToken(content, <<")">>, srcOpenIndex + 1)
        labelClosingIndex == findUnescapedToken(content, <<"]">>, cursor + 1)
        linkOpenIndex == labelClosingIndex + 1
        hrefClosingIndex == findUnescapedToken(content, <<")">>, linkOpenIndex + 1)
        imageComplete ==
            /\ altClosingIndex # -1
            /\ At(content, srcOpenIndex) = "("
            /\ srcClosingIndex # -1
    IN IF c = "\\" /\ cursor + 1 < Len(content)
       THEN Token("escape", cursor + 2, 1, -1, -1)
       ELSE IF isMarkdownFeatureEnabled(fs, "code") /\ c = Backtick /\ codeClose # -1
       THEN Token("code", codeClose + 1, 1, codeClose, -1)
       ELSE IF /\ isMarkdownFeatureEnabled(fs, "bold")
               /\ (StartsWith(content, <<"*", "*">>, cursor)
                   \/ StartsWith(content, <<"_", "_">>, cursor))
               /\ boldClose # -1
       THEN Token("bold", boldClose + Len(marker), 2, boldClose, -1)
       ELSE IF /\ isMarkdownFeatureEnabled(fs, "strikethrough")
               /\ StartsWith(content, <<"~", "~">>, cursor)
               /\ strikeClose # -1
       THEN Token("strikethrough", strikeClose + 2, 2, strikeClose, -1)
       ELSE IF /\ isMarkdownFeatureEnabled(fs, "italic")
               /\ (c = "*" \/ c = "_")
               /\ italicClose # -1
       THEN Token("italic", italicClose + 1, 1, italicClose, -1)
       ELSE IF /\ c = "!" /\ At(content, cursor + 1) = "["
               /\ isMarkdownFeatureEnabled(fs, "image")
               /\ imageComplete
       THEN Token("image", srcClosingIndex + 1, 2, altClosingIndex, srcClosingIndex)
       ELSE IF /\ c = "!" /\ At(content, cursor + 1) = "["
               /\ ~isMarkdownFeatureEnabled(fs, "image")
       THEN IF imageComplete
            THEN Token("imageText", srcClosingIndex + 1, 2, altClosingIndex, srcClosingIndex)
            ELSE Token("bang", cursor + 1, 1, -1, -1)
       ELSE IF /\ c = "["
               /\ labelClosingIndex # -1
               /\ At(content, linkOpenIndex) = "("
               /\ hrefClosingIndex # -1
       THEN Token("link", hrefClosingIndex + 1, 1, labelClosingIndex, hrefClosingIndex)
       ELSE Token("char", cursor + 1, 1, -1, -1)

RECURSIVE parseMarkdownInline(_, _)
RECURSIVE InlineLoop(_, _, _, _)

\* The image node pushed at lines 240-243.
ImageNode(content, cursor, tok) ==
    LET alt == unescapeMarkdown(Slice(content, cursor + 2, tok.close))
        parsed == parseImageSourceAndTitle(Slice(content, tok.close + 2, tok.close2), TRUE)
    IN [type |-> "image", src |-> parsed.src, alt |-> alt, title |-> parsed.title]

\* The nodes array after the iteration at cursor.
InlineEmit(nodes, content, cursor, tok, fs) ==
    CASE tok.kind = "escape" -> appendText(nodes, <<At(content, cursor + 1)>>)
      [] tok.kind = "code" ->
           Append(nodes, [type |-> "code",
                          content |-> unescapeMarkdown(Slice(content, cursor + 1, tok.close))])
      [] tok.kind \in {"bold", "strikethrough", "italic"} ->
           Append(nodes, [type |-> tok.kind,
                          children |-> parseMarkdownInline(
                              Slice(content, cursor + tok.open, tok.close), fs)])
      [] tok.kind = "image" -> Append(nodes, ImageNode(content, cursor, tok))
      [] tok.kind = "imageText" ->
           appendText(nodes, Slice(content, cursor, tok.close2 + 1))
      [] tok.kind = "bang" -> appendText(nodes, <<"!">>)
      [] tok.kind = "link" ->
           Append(nodes, [type |-> "link",
                          href |-> unescapeMarkdown(Slice(content, tok.close + 2, tok.close2)),
                          children |-> parseMarkdownInline(
                              Slice(content, cursor + 1, tok.close), fs)])
      [] OTHER -> appendText(nodes, <<At(content, cursor)>>)

InlineLoop(content, cursor, nodes, fs) ==
    IF cursor >= Len(content) THEN nodes
    ELSE LET tok == InlineToken(content, cursor, fs)
         IN InlineLoop(content, tok.next, InlineEmit(nodes, content, cursor, tok, fs), fs)

parseMarkdownInline(content, fs) == InlineLoop(content, 0, <<>>, fs)

(***************************************************************************)
(* markdownParser: block patterns and parseMarkdown                        *)
(***************************************************************************)

\* markdown.replace(/\r\n?/g, '\n')
RECURSIVE NormalizeFrom(_, _)
NormalizeFrom(md, i) ==
    IF i >= Len(md) THEN <<>>
    ELSE IF md[i + 1] = "\r"
    THEN <<"\n">> \o NormalizeFrom(md, IF At(md, i + 1) = "\n" THEN i + 2 ELSE i + 1)
    ELSE <<md[i + 1]>> \o NormalizeFrom(md, i + 1)

NormalizeNewlines(md) == NormalizeFrom(md, 0)

\* line.trim().length === 0
IsBlank(line) == Len(Trim(line)) = 0

Fence == <<Backtick, Backtick, Backtick>>

\* /^```([\w-]+)?\s*$/ ; g1 is the language, empty when the group did not take part.
FENCE_PATTERN(line) ==
    LET w == RunEnd(line, 3, WordChars)
    IN IF StartsWith(line, Fence, 0) /\ RunEnd(line, w, Whitespace) = Len(line)
       THEN Match(Slice(line, 3, w), <<>>)
       ELSE NoMatch

\* /^```\s*$/
FENCE_CLOSE_PATTERN(line) ==
    StartsWith(line, Fence, 0) /\ RunEnd(line, 3, Whitespace) = Len(line)

\* /^(#{1,6})\s+(.+)$/ ; when nothing follows the whitespace run, \s+ gives its last
\* character back to (.+).
HEADING_PATTERN(line) ==
    LET n == RunEnd(line, 0, {"#"})
        w == RunEnd(line, n, Whitespace)
        p == IF w < Len(line) THEN w ELSE w - 1
    IN IF /\ n >= 1 /\ n <= 6 /\ w > n /\ p > n
          /\ p < Len(line)
          /\ DotEnd(line, p) = Len(line)
       THEN Match(Slice(line, 0, n), Slice(line, p, Len(line)))
       ELSE NoMatch

\* /^>\s?(.*)$/ ; g1 is the text after the marker
BLOCKQUOTE_PATTERN(line) ==
    LET m == IF At(line, 1) \in Whitespace THEN 2 ELSE 1
    IN IF At(line, 0) = ">" /\ DotEnd(line, m) = Len(line)
       THEN Match(Slice(line, m, Len(line)), <<>>)
       ELSE NoMatch

HORIZONTAL_RULE_PATTERN(line) == HORIZONTAL_RULE_RE(line)

\* /^\s*[-*+]\s+(.*)$/ ; g1 is the item text
UNORDERED_LIST_PATTERN(line) ==
    LET a == RunEnd(line, 0, Whitespace)
        b == RunEnd(line, a + 1, Whitespace)
    IN IF /\ At(line, a) \in {"-", "*", "+"}
          /\ b > a + 1
          /\ DotEnd(line, b) = Len(line)
       THEN Match(Slice(line, b, Len(line)), <<>>)
       ELSE NoMatch

\* /^\s*\d+\.\s+(.*)$/ ; g1 is the item text
ORDERED_LIST_PATTERN(line) ==
    LET a == RunEnd(line, 0, Whitespace)
        d == RunEnd(line, a, Digits)
        b == RunEnd(line, d + 1, Whitespace)
    IN IF /\ d > a
          /\ At(line, d) = "."
          /\ b > d + 1
          /\ DotEnd(line, b) = Len(line)
       THEN Match(Slice(line, b, Len(line)), <<>>)
       ELSE NoMatch

\* findClosingFence accepting a fence line with a language as the closing fence.
RECURSIVE findClosingFenceWithLanguage(_, _)
findClosingFenceWithLanguage(lines, index) ==
    IF index >= Len(lines) THEN -1
    ELSE IF FENCE_PATTERN(lines[index + 1]).matched THEN index
    ELSE findClosingFenceWithLanguage(lines, index + 1)

RECURSIVE findClosingFence(_, _)
findClosingFence(lines, index) ==
    IF index >= Len(lines) THEN -1
    ELSE IF FENCE_CLOSE_PATTERN(lines[index + 1]) THEN index
    ELSE findClosingFence(lines, index + 1)

\* lines[index] ?? ''
LineAt(lines, index) == IF index >= 0 /\ index < Len(lines) THEN lines[index + 1] ELSE <<>>

IsListLine(line, fs) ==
    \/ isMarkdownFeatureEnabled(fs, "unorderedList") /\ UNORDERED_LIST_PATTERN(line).matched
    \/ isMarkdownFeatureEnabled(fs, "orderedList") /\ ORDERED_LIST_PATTERN(line).matched

\* isBlockStart taking every fence line for a block boundary, closed or not.
isBlockStartOnAnyFence(lines, index, fs) ==
    LET line == LineAt(lines, index)
    IN ~IsBlank(line)
          /\ \/ isMarkdownFeatureEnabled(fs, "heading") /\ HEADING_PATTERN(line).matched
                    /\ isHeadingLevelEnabled(fs, Len(HEADING_PATTERN(line).g1))
             \/ isMarkdownFeatureEnabled(fs, "divider") /\ HORIZONTAL_RULE_PATTERN(line)
             \/ isMarkdownFeatureEnabled(fs, "quote") /\ BLOCKQUOTE_PATTERN(line).matched
             \/ IsListLine(line, fs)
             \/ isMarkdownFeatureEnabled(fs, "codeBlock") /\ FENCE_PATTERN(line).matched

isBlockStart(lines, index, fs) ==
    LET line == LineAt(lines, index)
        m == HEADING_PATTERN(line)
    IN IF IsBlank(line) THEN FALSE
       ELSE IF /\ isMarkdownFeatureEnabled(fs, "heading")
               /\ m.matched
               /\ isHeadingLevelEnabled(fs, Len(m.g1))
       THEN TRUE
       ELSE IF isMarkdownFeatureEnabled(fs, "divider") /\ HORIZONTAL_RULE_PATTERN(line)
       THEN TRUE
       ELSE IF isMarkdownFeatureEnabled(fs, "quote") /\ BLOCKQUOTE_PATTERN(line).matched
       THEN TRUE
       ELSE IF IsListLine(line, fs) THEN TRUE
       ELSE IF isMarkdownFeatureEnabled(fs, "codeBlock") /\ FENCE_PATTERN(line).matched
       THEN findClosingFence(lines, index + 1) # -1
       ELSE FALSE

\* The while loop at lines 80-87: the index of the first line that is no quote line.
RECURSIVE QuoteEnd(_, _)
QuoteEnd(lines, cursor) ==
    IF cursor < Len(lines) /\ BLOCKQUOTE_PATTERN(lines[cursor + 1]).matched
    THEN QuoteEnd(lines, cursor + 1)
    ELSE cursor

ItemPattern(ordered, line) ==
    IF ordered THEN ORDERED_LIST_PATTERN(line) ELSE UNORDERED_LIST_PATTERN(line)

\* The while loop at lines 104-111.
RECURSIVE ListEnd(_, _, _)
ListEnd(lines, cursor, ordered) ==
    IF cursor < Len(lines) /\ ItemPattern(ordered, lines[cursor + 1]).matched
    THEN ListEnd(lines, cursor + 1, ordered)
    ELSE cursor

\* The while loop at lines 123-130.
RECURSIVE ParagraphEnd(_, _, _)
ParagraphEnd(lines, cursor, fs) ==
    IF /\ cursor < Len(lines)
       /\ ~IsBlank(lines[cursor + 1])
       /\ ~isBlockStart(lines, cursor, fs)
    THEN ParagraphEnd(lines, cursor + 1, fs)
    ELSE cursor

BlockResult(next, blocks) == [next |-> next, blocks |-> blocks]

\* One iteration of the outer while loop of parseMarkdown: the value it leaves in
\* cursor (next) and the blocks it pushes.
BlockStep(lines, cursor, fs) ==
    LET line == LineAt(lines, cursor)
        fenceMatch == FENCE_PATTERN(line)
        closingFenceIndex == findClosingFence(lines, cursor + 1)
        headingMatch == HEADING_PATTERN(line)
        quoteEnd == QuoteEnd(lines, cursor)
        ordered == ORDERED_LIST_PATTERN(line).matched
        listEnd == ListEnd(lines, cursor, ordered)
        paragraphEnd == ParagraphEnd(lines, cursor, fs)
    IN IF IsBlank(line)
       THEN BlockResult(cursor + 1, <<[type |-> "spacer"]>>)
       ELSE IF /\ isMarkdownFeatureEnabled(fs, "codeBlock")
               /\ fenceMatch.matched
               /\ closingFenceIndex # -1
       THEN BlockResult(closingFenceIndex + 1,
                <<[type |-> "codeBlock", language |-> fenceMatch.g1,
                   content |-> JoinLines(SubSeq(lines, cursor + 2, closingFenceIndex))]>>)
       ELSE IF /\ headingMatch.matched
               /\ ~isEscaped(line, 0)
               /\ isHeadingLevelEnabled(fs, Len(headingMatch.g1))
       THEN BlockResult(cursor + 1,
                <<[type |-> "heading", level |-> Len(headingMatch.g1),
                   children |-> parseMarkdownInline(headingMatch.g2, fs)]>>)
       ELSE IF isMarkdownFeatureEnabled(fs, "divider") /\ HORIZONTAL_RULE_PATTERN(line)
       THEN BlockResult(cursor + 1, <<[type |-> "horizontalRule"]>>)
       ELSE IF isMarkdownFeatureEnabled(fs, "quote") /\ BLOCKQUOTE_PATTERN(line).matched
       THEN BlockResult(quoteEnd,
                <<[type |-> "blockquote",
                   children |-> parseMarkdownInline(
                       JoinLines([k \in 1..(quoteEnd - cursor) |->
                                     BLOCKQUOTE_PATTERN(lines[cursor + k]).g1]), fs)]>>)
       ELSE IF IsListLine(line, fs)
       THEN BlockResult(listEnd,
                <<[type |-> "list", ordered |-> ordered,
                   items |-> [k \in 1..(listEnd - cursor) |->
                                 parseMarkdownInline(
                                     ItemPattern(ordered, lines[cursor + k]).g1, fs)]]>>)
       ELSE IF paragraphEnd > cursor
       THEN BlockResult(paragraphEnd,
                <<[type |-> "paragraph",
                   children |-> parseMarkdownInline(
                       JoinLines(SubSeq(lines, cursor + 1, paragraphEnd)), fs)]>>)
       ELSE BlockResult(cursor + 1, <<>>)

RECURSIVE BlockLoop(_, _, _, _)
BlockLoop(lines, cursor, blocks, fs) ==
    IF cursor >= Len(lines) THEN blocks
    ELSE LET r == BlockStep(lines, cursor, fs)
         IN BlockLoop(lines, r.next, blocks \o r.blocks, fs)

parseMarkdown(md, fs) == BlockLoop(SplitLines(NormalizeNewlines(md)), 0, <<>>, fs)

(***************************************************************************)
(* markdownToolbarActions                                                  *)
(***************************************************************************)

InlineActions == {"bold", "italic", "strikethrough", "code"}

BlockActions ==
    {"heading", "heading1", "heading2", "heading3", "heading4", "heading5", "heading6",
     "quote", "unorderedList", "orderedList", "divider", "codeBlock"}

INLINE_ACTION_MARKERS(action) ==
    CASE action = "bold" -> [open |-> <<"*", "*">>, close |-> <<"*", "*">>]
      [] action = "italic" -> [open |-> <<"_">>, close |-> <<"_">>]
      [] action = "strikethrough" -> [open |-> <<"~", "~">>, close |-> <<"~", "~">>]
      [] action = "code" -> [open |-> <<Backtick>>, close |-> <<Backtick>>]

isInlineToolbarAction(action) ==
    action = "bold" \/ action = "italic" \/ action = "strikethrough" \/ action = "code"

ToolbarResult(t, start, end, active) ==
    [text |-> t, selection |-> [start |-> start, end |-> end],
     activeInlineActions |-> active]

\* activeInlineActions.filter((value) => value !== action)
RECURSIVE FilterOut(_, _)
FilterOut(list, action) ==
    IF Len(list) = 0 THEN <<>>
    ELSE IF list[1] = action THEN FilterOut(Tail(list), action)
    ELSE <<list[1]>> \o FilterOut(Tail(list), action)

\* applyInlineAction returning the selection it was given after wrapping a range
\* (lines 100-103 without markerSize).
applyInlineActionUnshifted(action, t, sel, active) ==
    LET marker == INLINE_ACTION_MARKERS(action)
        isActive == Includes(active, action)
        nextMarker == IF isActive THEN marker.close ELSE marker.open
    IN IF sel.start # sel.end
       THEN ToolbarResult(
                Slice(t, 0, sel.start) \o marker.open \o Slice(t, sel.start, sel.end)
                    \o marker.close \o Slice(t, sel.end, Len(t)),
                sel.start, sel.end, FilterOut(active, action))
       ELSE ToolbarResult(
                Slice(t, 0, sel.start) \o nextMarker \o Slice(t, sel.start, Len(t)),
                sel.start + Len(nextMarker), sel.start + Len(nextMarker),
                IF isActive THEN FilterOut(active, action) ELSE Append(active, action))

\* applyInlineAction that never reads isActive at a caret (lines 109-118): it
\* inserts the opening marker and appends the action on every call.
applyInlineActionNoToggle(action, t, sel, active) ==
    LET marker == INLINE_ACTION_MARKERS(action)
    IN IF sel.start # sel.end
       THEN ToolbarResult(
                Slice(t, 0, sel.start) \o marker.open \o Slice(t, sel.start, sel.end)
                    \o marker.close \o Slice(t, sel.end, Len(t)),
                sel.start + Len(marker.open), sel.end + Len(marker.open),
                FilterOut(active, action))
       ELSE ToolbarResult(
                Slice(t, 0, sel.start) \o marker.open \o Slice(t, sel.start, Len(t)),
                sel.start + Len(marker.open), sel.start + Len(marker.open),
                Append(active, action))

applyInlineAction(action, t, sel, active) ==
    LET marker == INLINE_ACTION_MARKERS(action)
        selectedText == Slice(t, sel.start, sel.end)
        cursor == sel.start
        isActive == Includes(active, action)
        nextMarker == IF isActive THEN marker.close ELSE marker.open
    IN IF sel.start # sel.end
       THEN ToolbarResult(
                Slice(t, 0, sel.start) \o marker.open \o selectedText \o marker.close
                    \o Slice(t, sel.end, Len(t)),
                sel.start + Len(marker.open), sel.end + Len(marker.open),
                FilterOut(active, action))
       ELSE ToolbarResult(
                Slice(t, 0, cursor) \o nextMarker \o Slice(t, cursor, Len(t)),
                cursor + Len(nextMarker), cursor + Len(nextMarker),
                IF isActive THEN FilterOut(active, action) ELSE Append(active, action))

\* text.lastIndexOf('\n', fromIndex)
RECURSIVE LastIndexOf(_, _, _)
LastIndexOf(t, c, fromIndex) ==
    IF fromIndex < 0 THEN -1
    ELSE IF At(t, fromIndex) = c THEN fromIndex
    ELSE LastIndexOf(t, c, fromIndex - 1)

\* text.indexOf('\n', fromIndex)
RECURSIVE IndexOf(_, _, _)
IndexOf(t, c, fromIndex) ==
    IF fromIndex >= Len(t) THEN -1
    ELSE IF At(t, fromIndex) = c THEN fromIndex
    ELSE IndexOf(t, c, fromIndex + 1)

getSelectedLineRange(t, sel) ==
    LET safeStart == Max(0, Min(sel.start, Len(t)))
        safeEnd == Max(0, Min(sel.end, Len(t)))
        start == LastIndexOf(t, "\n", Max(safeStart - 1, 0))
        end == IndexOf(t, "\n", safeEnd)
        rangeStart == IF start = -1 THEN 0 ELSE start + 1
        rangeEnd == IF end = -1 THEN Len(t) ELSE end
    IN [start |-> rangeStart, end |-> rangeEnd, content |-> Slice(t, rangeStart, rangeEnd)]

\* Length of the match of /^#{1,6}\s+/ in line, -1 when it does not match.
HeadingPrefix(line) ==
    LET n == RunEnd(line, 0, {"#"})
        w == RunEnd(line, n, Whitespace)
    IN IF n >= 1 /\ n <= 6 /\ w > n THEN w ELSE -1

\* The quote pattern written as the literal prefix: '>' and one space.
QuotePrefixLiteral(line) ==
    IF At(line, 0) = ">" /\ At(line, 1) = " " THEN 2 ELSE -1

\* Length of the match of /^>\s?/
QuotePrefix(line) ==
    IF At(line, 0) # ">" THEN -1
    ELSE IF At(line, 1) \in Whitespace THEN 2 ELSE 1

\* Length of the match of /^[-*+]\s+/
BulletPrefix(line) ==
    LET w == RunEnd(line, 1, Whitespace)
    IN IF At(line, 0) \in {"-", "*", "+"} /\ w > 1 THEN w ELSE -1

\* Length of the match of /^\d+\.\s+/
NumberPrefix(line) ==
    LET d == RunEnd(line, 0, Digits)
        w == RunEnd(line, d + 1, Whitespace)
    IN IF d > 0 /\ At(line, d) = "." /\ w > d + 1 THEN w ELSE -1

\* new RegExp(`^#{${level}}\\s+`).test(line)
HasHeadingLevel(line, level) ==
    /\ Len(line) >= level
    /\ \A k \in 1..level : line[k] = "#"
    /\ At(line, level) \in Whitespace

\* line.replace(stripPattern, '') for a pattern anchored at the start of the line
StripPrefix(line, matched) ==
    IF matched = -1 THEN line ELSE Slice(line, matched, Len(line))

\* '#'.repeat(level)
RECURSIVE Repeat(_, _)
Repeat(c, n) == IF n <= 0 THEN <<>> ELSE <<c>> \o Repeat(c, n - 1)

\* setHeadingLevel that prepends the prefix without removing an existing heading
\* prefix (line 214 without the replace).
setHeadingLevelKeepsPrefix(lines, level) ==
    LET prefix == Repeat("#", level) \o <<" ">>
        hasSameLevel == \A k \in 1..Len(lines) : HasHeadingLevel(lines[k], level)
    IN IF hasSameLevel
       THEN [k \in 1..Len(lines) |-> StripPrefix(lines[k], HeadingPrefix(lines[k]))]
       ELSE [k \in 1..Len(lines) |-> prefix \o lines[k]]

setHeadingLevel(lines, level) ==
    LET prefix == Repeat("#", level) \o <<" ">>
        hasSameLevel == \A k \in 1..Len(lines) : HasHeadingLevel(lines[k], level)
    IN IF hasSameLevel
       THEN [k \in 1..Len(lines) |-> StripPrefix(lines[k], HeadingPrefix(lines[k]))]
       ELSE [k \in 1..Len(lines) |->
                prefix \o StripPrefix(lines[k], HeadingPrefix(lines[k]))]

HeadingFactory(index) == <<"#", " ">>

QuoteFactory(index) == <<">", " ">>

BulletFactory(index) == <<"-", " ">>

\* The orderedList prefix factory numbering from index instead of index + 1.
NumberFactoryFromZero(index) == ToDecimal(index) \o <<".", " ">>

NumberFactory(index) == ToDecimal(index + 1) \o <<".", " ">>

\* The length of the match of the strip pattern of a togglePrefix call, -1 when the
\* line does not match.
PatternMatch(stripPattern, line) ==
    CASE stripPattern = "heading" -> HeadingPrefix(line)
      [] stripPattern = "quote" -> QuotePrefix(line)
      [] stripPattern = "unorderedList" -> BulletPrefix(line)
      [] OTHER -> NumberPrefix(line)

\* The prefix the factory of a togglePrefix call returns for the line at index.
PrefixFactory(prefixFactory, index) ==
    CASE prefixFactory = "heading" -> HeadingFactory(index)
      [] prefixFactory = "quote" -> QuoteFactory(index)
      [] prefixFactory = "unorderedList" -> BulletFactory(index)
      [] OTHER -> NumberFactory(index)

\* stripPattern and prefixFactory are the action whose pattern and factory
\* transformLinesByAction passes.
togglePrefix(lines, stripPattern, prefixFactory) ==
    LET hasPrefix == \A k \in 1..Len(lines) : PatternMatch(stripPattern, lines[k]) # -1
    IN IF hasPrefix
       THEN [k \in 1..Len(lines) |->
                StripPrefix(lines[k], PatternMatch(stripPattern, lines[k]))]
       ELSE [k \in 1..Len(lines) |-> PrefixFactory(prefixFactory, k - 1) \o lines[k]]

hasCodeBlockMarker(line) == StartsWith(line, <<Backtick, Backtick, Backtick>>, 0)

\* toggleCodeBlock leaving a wrapped block as it is.
toggleCodeBlockKeepsFences(lines) ==
    LET isWrappedInCodeBlock ==
            /\ Len(lines) >= 2
            /\ hasCodeBlockMarker(lines[1])
            /\ hasCodeBlockMarker(lines[Len(lines)])
    IN IF isWrappedInCodeBlock THEN lines
       ELSE <<<<Backtick, Backtick, Backtick>>>> \o lines
                \o <<<<Backtick, Backtick, Backtick>>>>

toggleCodeBlock(lines) ==
    LET isWrappedInCodeBlock ==
            /\ Len(lines) >= 2
            /\ hasCodeBlockMarker(lines[1])
            /\ hasCodeBlockMarker(lines[Len(lines)])
    IN IF isWrappedInCodeBlock THEN SubSeq(lines, 2, Len(lines) - 1)
       ELSE <<<<Backtick, Backtick, Backtick>>>> \o lines
                \o <<<<Backtick, Backtick, Backtick>>>>

\* /^ {0,3}([-*_])[ \t]*(?:\1[ \t]*){2,}$/.test(line)
DividerRule(line) ==
    LET lead == RunEnd(line, 0, {" "})
        c == At(line, lead)
    IN /\ lead <= 3
       /\ c \in {"-", "*", "_"}
       /\ RunEnd(line, lead, {c, " ", "\t"}) = Len(line)
       /\ Cardinality({k \in lead..(Len(line) - 1) : line[k + 1] = c}) >= 3

\* The divider case with the two results of the conditional swapped (lines 196-198).
DividerLinesSwapped(lines) ==
    IF \A k \in 1..Len(lines) : DividerRule(lines[k])
    THEN [k \in 1..Len(lines) |-> <<"-", "-", "-">>]
    ELSE [k \in 1..Len(lines) |-> <<>>]

DividerLines(lines) ==
    IF \A k \in 1..Len(lines) : DividerRule(lines[k])
    THEN [k \in 1..Len(lines) |-> <<>>]
    ELSE [k \in 1..Len(lines) |-> <<"-", "-", "-">>]

transformLinesByAction(action, lines) ==
    CASE action = "heading" -> togglePrefix(lines, "heading", "heading")
      [] action = "heading1" -> setHeadingLevel(lines, 1)
      [] action = "heading2" -> setHeadingLevel(lines, 2)
      [] action = "heading3" -> setHeadingLevel(lines, 3)
      [] action = "heading4" -> setHeadingLevel(lines, 4)
      [] action = "heading5" -> setHeadingLevel(lines, 5)
      [] action = "heading6" -> setHeadingLevel(lines, 6)
      [] action = "quote" -> togglePrefix(lines, "quote", "quote")
      [] action = "unorderedList" -> togglePrefix(lines, "unorderedList", "unorderedList")
      [] action = "orderedList" -> togglePrefix(lines, "orderedList", "orderedList")
      [] action = "divider" -> DividerLines(lines)
      [] action = "codeBlock" -> toggleCodeBlock(lines)
      [] OTHER -> lines

\* applyBlockAction without the clamp of the new caret offset.
applyBlockActionUnclamped(action, t, sel, active) ==
    LET lineRange == getSelectedLineRange(t, sel)
        nextContent ==
            JoinLines(transformLinesByAction(action, SplitLines(lineRange.content)))
        nextText == Slice(t, 0, lineRange.start) \o nextContent
                        \o Slice(t, lineRange.end, Len(t))
        cursor == sel.start + (Len(nextContent) - Len(lineRange.content))
    IN IF sel.start = sel.end
       THEN ToolbarResult(nextText, cursor, cursor, active)
       ELSE ToolbarResult(nextText, lineRange.start,
                          lineRange.start + Len(nextContent), active)

\* applyBlockAction returning an empty list of active inline actions.
applyBlockActionClearsActive(action, t, sel, active) ==
    LET lineRange == getSelectedLineRange(t, sel)
        nextContent ==
            JoinLines(transformLinesByAction(action, SplitLines(lineRange.content)))
        nextText == Slice(t, 0, lineRange.start) \o nextContent
                        \o Slice(t, lineRange.end, Len(t))
        cursor == lineRange.start
                    + Max(0, Min(Len(nextContent),
                                 sel.start - lineRange.start
                                    + (Len(nextContent) - Len(lineRange.content))))
    IN IF sel.start = sel.end
       THEN ToolbarResult(nextText, cursor, cursor, <<>>)
       ELSE ToolbarResult(nextText, lineRange.start,
                          lineRange.start + Len(nextContent), <<>>)

applyBlockAction(action, t, sel, active) ==
    LET lineRange == getSelectedLineRange(t, sel)
        lines == SplitLines(lineRange.content)
        nextLines == transformLinesByAction(action, lines)
        nextContent == JoinLines(nextLines)
        nextText == Slice(t, 0, lineRange.start) \o nextContent
                        \o Slice(t, lineRange.end, Len(t))
        baseOffset == sel.start - lineRange.start
        nextOffset ==
            Max(0, Min(Len(nextContent),
                       baseOffset + (Len(nextContent) - Len(lineRange.content))))
        cursor == lineRange.start + nextOffset
    IN IF sel.start = sel.end
       THEN ToolbarResult(nextText, cursor, cursor, active)
       ELSE ToolbarResult(nextText, lineRange.start,
                          lineRange.start + Len(nextContent), active)

ImageTemplate == <<"!", "[", "]", "(", "u", "r", "l", ")">>

\* applyImageAction putting the template in place of the selected text.
applyImageActionReplacing(t, sel, active) ==
    LET cursor == sel.start
        nextText == Slice(t, 0, cursor) \o ImageTemplate \o Slice(t, sel.end, Len(t))
        nextCursor == cursor + 2
    IN ToolbarResult(nextText, nextCursor, nextCursor, active)

applyImageAction(t, sel, active) ==
    LET cursor == sel.start
        nextText == Slice(t, 0, cursor) \o ImageTemplate \o Slice(t, cursor, Len(t))
        nextCursor == cursor + 2
    IN ToolbarResult(nextText, nextCursor, nextCursor, active)

applyMarkdownToolbarAction(action, t, sel, active) ==
    IF action = "image" THEN applyImageAction(t, sel, active)
    ELSE IF isInlineToolbarAction(action) THEN applyInlineAction(action, t, sel, active)
    ELSE applyBlockAction(action, t, sel, active)

(***************************************************************************)
(* useMarkdownEditor: the refs of the hook and the Android selection        *)
(* workaround. The state `selection` and selectionRef.current are written   *)
(* together by both handlers and are the variable selection; `value` is     *)
(* the variable text, which the owner of the hook sets in onChangeText.     *)
(***************************************************************************)

\* The hook after its first render: inputRef.current is null (inputRef FALSE),
\* suppressSelectionRef.current is false, no animation frame callback is pending
\* and setNativeProps has set no selection.
NoHook ==
    [platform |-> "ios", inputRef |-> FALSE, focused |-> FALSE,
     suppressSelectionRef |-> FALSE, pending |-> <<>>, nativeSelection |-> <<>>]

\* applyAndroidSelection: h after the call. The callback passed to
\* requestAnimationFrame is kept in pending with its place in the chain (stage).
applyAndroidSelection(h, targetSelection) ==
    IF h.platform # "android" \/ ~h.inputRef THEN h
    ELSE [h EXCEPT !.suppressSelectionRef = TRUE,
                   !.pending = Append(@, [stage |-> 1,
                                          targetSelection |-> targetSelection])]

\* RunFrame with a second callback that requests the third frame only when the
\* input ref is set.
RECURSIVE RunFrameNeedingInput(_, _)
RunFrameNeedingInput(callbacks, h) ==
    IF callbacks = <<>> THEN h
    ELSE LET cb == Head(callbacks)
             after ==
                 CASE cb.stage = 1 ->
                        [h EXCEPT !.focused = @ \/ h.inputRef,
                                  !.pending = Append(@, [cb EXCEPT !.stage = 2])]
                   [] cb.stage = 2 ->
                        IF h.inputRef
                        THEN [h EXCEPT !.nativeSelection = <<cb.targetSelection>>,
                                       !.pending = Append(@, [cb EXCEPT !.stage = 3])]
                        ELSE h
                   [] OTHER -> [h EXCEPT !.suppressSelectionRef = FALSE]
         IN RunFrameNeedingInput(Tail(callbacks), after)

\* One animation frame: the callbacks requested before the frame run in the order
\* they were requested, on h, whose pending holds the callbacks requested during
\* the frame. Stage 1 is the callback of lines 62-74 (focus, request the second),
\* stage 2 that of lines 64-73 (setNativeProps if the ref is set, request the
\* third), stage 3 that of lines 70-72.
RECURSIVE RunFrame(_, _)
RunFrame(callbacks, h) ==
    IF callbacks = <<>> THEN h
    ELSE LET cb == Head(callbacks)
             after ==
                 CASE cb.stage = 1 ->
                        [h EXCEPT !.focused = @ \/ h.inputRef,
                                  !.pending = Append(@, [cb EXCEPT !.stage = 2])]
                   [] cb.stage = 2 ->
                        [h EXCEPT !.nativeSelection =
                                      IF h.inputRef THEN <<cb.targetSelection>> ELSE @,
                                  !.pending = Append(@, [cb EXCEPT !.stage = 3])]
                   [] OTHER -> [h EXCEPT !.suppressSelectionRef = FALSE]
         IN RunFrame(Tail(callbacks), after)

(***************************************************************************)
(* The pure entry points, applied to bounded inputs                        *)
(***************************************************************************)

\* Number of pieces an input string is put together from.
MaxPieces == 3

\* The building blocks of the input strings: every marker of the grammar, plain
\* characters and the whitespace the block patterns read.
Pieces ==
    { <<"a">>, <<" ">>, <<"\n">>, <<"\\">>, <<"*">>, <<"*", "*">>, <<"_">>,
      <<"~", "~">>, <<Backtick>>, <<"!", "[">>, <<"[">>, <<"]", "(">>, <<")">>,
      <<"#">>, <<"#", " ">>, <<">">>, <<"-", " ">>, <<"1", ".", " ">>,
      <<"-", "-", "-">>, Fence, <<"\t">> }

RECURSIVE PieceStrings(_)
PieceStrings(n) ==
    IF n = 0 THEN {<<>>}
    ELSE LET shorter == PieceStrings(n - 1)
         IN shorter \cup {s \o p : s \in shorter, p \in Pieces}

DEFAULT_MARKDOWN_FEATURES ==
    <<"bold", "italic", "strikethrough", "code", "codeBlock", "heading1", "heading2",
      "heading3", "heading4", "heading5", "heading6", "quote", "unorderedList",
      "orderedList", "divider", "image">>

\* The feature lists of the inputs: absent, the default list, the default list
\* without image, and a list that enables bold alone.
FeatureLists ==
    { Undefined,
      DEFAULT_MARKDOWN_FEATURES,
      SubSeq(DEFAULT_MARKDOWN_FEATURES, 1, 15),
      <<"bold">> }

NoCall ==
    [action |-> "none", text |-> <<>>, selection |-> [start |-> 0, end |-> 0],
     activeInlineActions |-> <<>>, n |-> 0]

CoreInit ==
    /\ markdown \in PieceStrings(MaxPieces)
    /\ features \in FeatureLists
    /\ entry = "none"
    /\ result = <<>>
    /\ text = <<>>
    /\ selection = [start |-> 0, end |-> 0]
    /\ activeInlineActions = <<>>
    /\ call = NoCall
    /\ hook = NoHook

CallHighlightMarkdown ==
    /\ entry = "none"
    /\ entry' = "highlightMarkdown"
    /\ result' = highlightMarkdown(markdown, features)
    /\ UNCHANGED <<markdown, features, tbVars, hook>>

CallParseMarkdown ==
    /\ entry = "none"
    /\ entry' = "parseMarkdown"
    /\ result' = parseMarkdown(markdown, features)
    /\ UNCHANGED <<markdown, features, tbVars, hook>>

CallParseMarkdownInline ==
    /\ entry = "none"
    /\ entry' = "parseMarkdownInline"
    /\ result' = parseMarkdownInline(markdown, features)
    /\ UNCHANGED <<markdown, features, tbVars, hook>>

CoreNext ==
    \/ CallHighlightMarkdown
    \/ CallParseMarkdown
    \/ CallParseMarkdownInline

SpecCore == CoreInit /\ [][CoreNext]_vars

(***************************************************************************)
(* The toolbar transformation, applied to bounded editor states            *)
(***************************************************************************)

\* Number of lines of an initial text.
MaxLines == 2

\* Number of toolbar actions applied in a row in an editing session.
MaxCalls == 4

ToolbarActions == InlineActions \cup BlockActions \cup {"image"}

\* The lines the initial texts are put together from: plain and empty lines and
\* lines that carry the prefixes the block actions test for.
LineSamples ==
    { <<>>, <<"a">>, <<"#", "#", " ", "a">>, <<">", " ", "a">>, <<">", "a">>,
      <<"*", " ", " ", "a">>, <<"1", ".", " ", "a">>, <<"-", "-", "-">> }

RECURSIVE LineTexts(_)
LineTexts(n) ==
    IF n = 1 THEN LineSamples
    ELSE LET shorter == LineTexts(n - 1)
         IN shorter \cup {t \o <<"\n">> \o l : t \in shorter, l \in LineSamples}

\* Texts that hold a fence line: the fence alone, and every sample line between
\* an opening fence with a language and a closing fence.
FencedTexts ==
    {Fence} \cup {Fence \o <<"j", "\n">> \o l \o <<"\n">> \o Fence : l \in LineSamples}

Selections(t) ==
    {[start |-> a, end |-> b] : a \in 0..Len(t), b \in 0..Len(t)} \cap
        {sel \in [start : 0..Len(t), end : 0..Len(t)] : sel.start <= sel.end}

ActiveSamples == { <<>>, <<"code", "bold", "strikethrough", "italic">> }

ToolbarInit ==
    /\ text \in LineTexts(MaxLines) \cup FencedTexts
    /\ selection \in Selections(text)
    /\ activeInlineActions \in ActiveSamples
    /\ call = NoCall
    /\ hook = NoHook
    /\ markdown = <<>>
    /\ features = Undefined
    /\ entry = "none"
    /\ result = <<>>

SessionInit ==
    /\ text = <<>>
    /\ selection = [start |-> 0, end |-> 0]
    /\ activeInlineActions = <<>>
    /\ call = NoCall
    /\ hook = NoHook
    /\ markdown = <<>>
    /\ features = Undefined
    /\ entry = "none"
    /\ result = <<>>

\* One call of applyMarkdownToolbarAction on the current editor state; the result
\* becomes the editor state and call keeps the parameters of the call.
ApplyToolbarAction(action) ==
    LET next == applyMarkdownToolbarAction(action, text, selection, activeInlineActions)
    IN /\ text' = next.text
       /\ selection' = next.selection
       /\ activeInlineActions' = next.activeInlineActions
       /\ call' = [action |-> action, text |-> text, selection |-> selection,
                   activeInlineActions |-> activeInlineActions, n |-> call.n + 1]
       /\ UNCHANGED <<coreVars, hook>>

ApplyOnce(action) == call.n = 0 /\ ApplyToolbarAction(action)

ApplyInSession(action) == call.n < MaxCalls /\ ApplyToolbarAction(action)

ToolbarNext == \E action \in ToolbarActions : ApplyOnce(action)

SessionNext == \E action \in ToolbarActions : ApplyInSession(action)

SpecToolbar == ToolbarInit /\ [][ToolbarNext]_vars

SpecSession == SessionInit /\ [][SessionNext]_vars

(***************************************************************************)
(* The pure entry points under feature lists that leave features out       *)
(***************************************************************************)

\* Number of pieces of an input string of the gated runs.
MaxGatedPieces == 3

ImageSample == <<"!", "[", "a", "]", "(", "u", ")">>

LinkSample == <<"[", "l", "]", "(", "u", ")">>

SixHashes == <<"#", "#", "#", "#", "#", "#">>

\* The pieces of the gated runs: those of the plain runs, a whole image, a whole
\* link and the longest heading marker.
GatedPieces == Pieces \cup {ImageSample, LinkSample, SixHashes}

RECURSIVE GatedStrings(_)
GatedStrings(n) ==
    IF n = 0 THEN {<<>>}
    ELSE LET shorter == GatedStrings(n - 1)
         IN shorter \cup {s \o p : s \in shorter, p \in GatedPieces}

\* Feature lists that leave features out: absent, empty, bold alone, the default
\* list without image, a list without bold, code, quote and orderedList that
\* names one heading level, and a list with the generic heading.
GatedFeatureLists ==
    { Undefined,
      <<>>,
      <<"bold">>,
      SubSeq(DEFAULT_MARKDOWN_FEATURES, 1, 15),
      <<"italic", "strikethrough", "heading2", "unorderedList", "divider", "image">>,
      <<"heading", "code", "codeBlock", "quote", "orderedList">> }

GatedInit ==
    /\ markdown \in GatedStrings(MaxGatedPieces)
    /\ features \in GatedFeatureLists
    /\ entry = "none"
    /\ result = <<>>
    /\ text = <<>>
    /\ selection = [start |-> 0, end |-> 0]
    /\ activeInlineActions = <<>>
    /\ call = NoCall
    /\ hook = NoHook

SpecGated == GatedInit /\ [][CoreNext]_vars

(***************************************************************************)
(* The helpers of markdownSyntaxUtils, applied to bounded arguments        *)
(***************************************************************************)

\* Length of the strings findUnescapedToken is applied to.
MaxUtilLen == 4

UtilChars == {"a", "\\", "*"}

RECURSIVE UtilTexts(_)
UtilTexts(n) ==
    IF n = 0 THEN {<<>>}
    ELSE LET shorter == UtilTexts(n - 1)
         IN shorter \cup {s \o <<c>> : s \in shorter, c \in UtilChars}

UtilTokens == { <<>>, <<"*">>, <<"*", "*">>, <<"\\">>, <<"a", "*">> }

HeadingLevels == 1..6

\* Feature lists with and without heading features.
HeadingFeatureLists ==
    { Undefined, <<>>, <<"bold">>, <<"heading">>, <<"heading2">>,
      <<"bold", "heading1", "heading6">>, <<"heading3", "heading">> }

UtilsInit ==
    /\ markdown \in UtilTexts(MaxUtilLen)
    /\ features \in HeadingFeatureLists
    /\ entry = "none"
    /\ result = <<>>
    /\ text = <<>>
    /\ selection = [start |-> 0, end |-> 0]
    /\ activeInlineActions = <<>>
    /\ call = NoCall
    /\ hook = NoHook

CallFindUnescapedToken(token, startIndex) ==
    /\ entry = "none"
    /\ entry' = "findUnescapedToken"
    /\ result' = [token |-> token, startIndex |-> startIndex,
                  index |-> findUnescapedToken(markdown, token, startIndex)]
    /\ UNCHANGED <<markdown, features, tbVars, hook>>

CallIsHeadingLevelEnabled(level) ==
    /\ entry = "none"
    /\ entry' = "isHeadingLevelEnabled"
    /\ result' = [level |-> level, enabled |-> isHeadingLevelEnabled(features, level)]
    /\ UNCHANGED <<markdown, features, tbVars, hook>>

UtilsNext ==
    \/ \E token \in UtilTokens : \E startIndex \in 0..(Len(markdown) + 1) :
           CallFindUnescapedToken(token, startIndex)
    \/ \E level \in HeadingLevels : CallIsHeadingLevelEnabled(level)

SpecUtils == UtilsInit /\ [][UtilsNext]_vars

(***************************************************************************)
(* Claims on highlightMarkdown, parseMarkdown and parseMarkdownInline      *)
(***************************************************************************)

RECURSIVE ConcatText(_)
ConcatText(segs) ==
    IF Len(segs) = 0 THEN <<>> ELSE segs[1].text \o ConcatText(Tail(segs))

\* C1: character parity. Concatenating the text of the segments highlightMarkdown
\* returns, in order, gives back the input string exactly.
C1_CharacterParity ==
    entry = "highlightMarkdown" => ConcatText(result) = markdown

\* Every substring of the input, as the content of a scan.
Substrings(s) == {Slice(s, a, b) : a \in 0..Len(s), b \in 0..Len(s)}

RecursiveKinds == {"bold", "strikethrough", "italic"}

\* The iteration of an inline scan at cursor leaves cursor at least one character
\* further and not past the end, and the content it hands to a recursive call is
\* a strictly shorter substring of its own content.
InlineIterationAdvances(content, cursor, tok, kinds) ==
    /\ tok.next >= cursor + 1
    /\ tok.next <= Len(content)
    /\ tok.kind \in kinds =>
          LET from == IF tok.kind = "link" THEN cursor + 1 ELSE cursor + tok.open
          IN /\ cursor < from
             /\ from <= tok.close
             /\ tok.close < Len(content)
             /\ Len(Slice(content, from, tok.close)) = tok.close - from
             /\ tok.close - from < Len(content)

\* Every scan iteration that a call on md with the feature list fs can run: the
\* inline scans on every substring of md, the block scan on every line index.
ScansAdvance(md, fs) ==
    /\ \A content \in Substrings(md) : \A cursor \in 0..(Len(content) - 1) :
          /\ InlineIterationAdvances(content, cursor,
                 InlineToken(content, cursor, fs), RecursiveKinds \cup {"link"})
          /\ InlineIterationAdvances(content, cursor,
                 HighlightToken(content, cursor, fs), RecursiveKinds)
    /\ LET lines == SplitLines(NormalizeNewlines(md))
       IN \A cursor \in 0..(Len(lines) - 1) :
             LET step == BlockStep(lines, cursor, fs)
             IN step.next >= cursor + 1 /\ step.next <= Len(lines)

\* C2: totality and termination. Every iteration of the scan loops of
\* parseMarkdownInline, parseInlineHighlight and parseMarkdown advances its cursor
\* by at least one character or one line, every recursive inline call is made on a
\* strictly shorter substring of the caller's content, and each of the three entry
\* points returns a value (a sequence of nodes or segments) on every input. The
\* scans are examined on each input before it is handed to an entry point, the
\* returned value after the call.
C2_TotalAndTerminating ==
    /\ entry = "none" => ScansAdvance(markdown, features)
    /\ entry # "none" => Len(result) >= 0 /\ DOMAIN result = 1..Len(result)

\* C2 witness: parseMarkdownInline has returned on an input in which a scan
\* iteration jumps over a closed bold span with a non-empty inside, on which the
\* recursive call is made.
C2_Witness ==
    /\ entry = "parseMarkdownInline"
    /\ Len(result) >= 1
    /\ result[1].type = "bold"
    /\ Len(result[1].children) >= 1
    /\ \E cursor \in 0..(Len(markdown) - 1) :
          LET tok == InlineToken(markdown, cursor, features)
          IN tok.kind = "bold" /\ tok.close > cursor + 2 /\ tok.next > cursor + 4

(***************************************************************************)
(* Claims on applyMarkdownToolbarAction                                    *)
(***************************************************************************)

\* list without every occurrence of action
Without(list, action) ==
    LET Keep(value) == value # action
    IN SelectSeq(list, Keep)

\* t with marker inserted at index i
InsertAt(t, i, marker) == Slice(t, 0, i) \o marker \o Slice(t, i, Len(t))

IsCaret(sel) == sel.start = sel.end

\* C3: an inline action on a non-empty selection wraps the selected substring in
\* open and close, shifts both selection bounds right by the length of open, so
\* that the same substring stays selected, and returns the input list of active
\* actions with the action removed.
C3_InlineActionOnRange ==
    (call.action \in InlineActions /\ call.selection.start < call.selection.end) =>
        LET marker == INLINE_ACTION_MARKERS(call.action)
            start == call.selection.start
            end == call.selection.end
        IN /\ text = Slice(call.text, 0, start) \o marker.open
                        \o Slice(call.text, start, end) \o marker.close
                        \o Slice(call.text, end, Len(call.text))
           /\ selection = [start |-> start + Len(marker.open),
                           end |-> end + Len(marker.open)]
           /\ Slice(text, selection.start, selection.end) = Slice(call.text, start, end)
           /\ activeInlineActions = Without(call.activeInlineActions, call.action)

\* C3 witness: bold has been applied to a non-empty selection while bold was in
\* the list of active actions, and the selection now sits between the markers.
C3_Witness ==
    /\ call.action = "bold"
    /\ call.selection.start < call.selection.end
    /\ Includes(call.activeInlineActions, "bold")
    /\ Slice(text, selection.start - 2, selection.start) = <<"*", "*">>
    /\ Slice(text, selection.end, selection.end + 2) = <<"*", "*">>
    /\ ~Includes(activeInlineActions, "bold")

\* C4: the same inline action applied twice in a row at a caret c, starting with
\* the action inactive. The first call inserts open at c, puts the caret after it
\* and marks the action active; the second inserts close right after open and
\* clears the action: the text is the original with open and close inserted at c,
\* the caret is at c + |open| + |close| and the active list is the initial one.
C4_InlineToggleSymmetry ==
    [][ ( /\ call.action \in InlineActions
          /\ IsCaret(call.selection)
          /\ ~Includes(call.activeInlineActions, call.action)
          /\ call'.action = call.action )
        => LET marker == INLINE_ACTION_MARKERS(call.action)
               c == call.selection.start
           IN /\ text = InsertAt(call.text, c, marker.open)
              /\ selection = [start |-> c + Len(marker.open), end |-> c + Len(marker.open)]
              /\ activeInlineActions = Append(call.activeInlineActions, call.action)
              /\ text' = InsertAt(call.text, c, marker.open \o marker.close)
              /\ selection' = [start |-> c + Len(marker.open) + Len(marker.close),
                               end |-> c + Len(marker.open) + Len(marker.close)]
              /\ activeInlineActions' = call.activeInlineActions ]_vars

\* C4 witness: the second of two bold calls at a caret has returned while italic
\* stayed active: the caret follows the four asterisks and bold is inactive again.
C4_Witness ==
    /\ call.n >= 3
    /\ call.action = "bold"
    /\ IsCaret(call.selection)
    /\ Includes(call.activeInlineActions, "bold")
    /\ Slice(call.text, call.selection.start - 2, call.selection.start) = <<"*", "*">>
    /\ Slice(text, selection.start - 4, selection.start) = <<"*", "*", "*", "*">>
    /\ activeInlineActions = <<"italic">>

\* The range a block action replaces in the text it was called on, and its lines.
Covered == getSelectedLineRange(call.text, call.selection)

CoveredLines == SplitLines(Covered.content)

\* The returned text is the text of the call with the covered range replaced by lines.
CoveredReplacedBy(lines) ==
    text = Slice(call.text, 0, Covered.start) \o JoinLines(lines)
              \o Slice(call.text, Covered.end, Len(call.text))

\* The indices of the line breaks of t strictly before index i, and at or after it.
BreaksBefore(t, i) == {k \in 0..(i - 1) : At(t, k) = "\n"}

BreaksFrom(t, i) == {k \in i..(Len(t) - 1) : At(t, k) = "\n"}

SetMax(S) == CHOOSE x \in S : \A y \in S : y <= x

SetMin(S) == CHOOSE x \in S : \A y \in S : x <= y

\* C5: whole-line expansion. The range [rs, re) a block action replaces starts one
\* past the last line break strictly before the selection start (0 if none) and
\* ends at the first line break at or after the selection end (the text length if
\* none), so rs <= start <= end <= re, and the text before rs and from re on is
\* unchanged in the result.
C5_WholeLineExpansion ==
    call.action \in BlockActions =>
        LET t == call.text
            start == call.selection.start
            end == call.selection.end
            rs == IF BreaksBefore(t, start) = {} THEN 0
                  ELSE 1 + SetMax(BreaksBefore(t, start))
            re == IF BreaksFrom(t, end) = {} THEN Len(t) ELSE SetMin(BreaksFrom(t, end))
        IN /\ Covered.start = rs
           /\ Covered.end = re
           /\ rs <= start /\ start <= end /\ end <= re
           /\ Slice(text, 0, rs) = Slice(t, 0, rs)
           /\ Slice(text, Len(text) - (Len(t) - re), Len(text)) = Slice(t, re, Len(t))

\* C6: orderedList. When every covered line matches digits, '.', whitespace, that
\* prefix is stripped from every line; otherwise the k-th covered line of the
\* result is the number k, '. ' and the line as it was, whatever numbers the lines
\* carried before.
C6_OrderedList ==
    call.action = "orderedList" =>
        LET lines == CoveredLines
            stripped == [k \in 1..Len(lines) |->
                            Slice(lines[k], NumberPrefix(lines[k]), Len(lines[k]))]
            numbered == [k \in 1..Len(lines) |-> ToDecimal(k) \o <<".", " ">> \o lines[k]]
        IN IF \A k \in 1..Len(lines) : NumberPrefix(lines[k]) # -1
           THEN CoveredReplacedBy(stripped)
           ELSE /\ CoveredReplacedBy(numbered)
                /\ \A k \in 1..Len(lines) :
                      LET line == SplitLines(Slice(text, Covered.start, Len(text)))[k]
                      IN ORDERED_LIST_PATTERN(line).matched
                         /\ Slice(line, 0, RunEnd(line, 0, Digits)) = ToDecimal(k)

\* C6 witness: orderedList has run on two covered lines of which the first was
\* numbered and the second was not, and the lines now carry 1 and 2.
C6_Witness ==
    /\ call.action = "orderedList"
    /\ Len(CoveredLines) = 2
    /\ NumberPrefix(CoveredLines[1]) # -1
    /\ NumberPrefix(CoveredLines[2]) = -1
    /\ StartsWith(text, <<"1", ".", " ", "1", ".", " ">>, Covered.start)
    /\ \E i \in 0..Len(text) : StartsWith(text, <<"\n", "2", ".", " ">>, i)

HeadingLevelActions ==
    {"heading1", "heading2", "heading3", "heading4", "heading5", "heading6"}

\* The N of a headingN action.
LevelOf(action) ==
    CASE action = "heading1" -> 1 [] action = "heading2" -> 2 [] action = "heading3" -> 3
      [] action = "heading4" -> 4 [] action = "heading5" -> 5 [] OTHER -> 6

\* line starts with exactly n '#' followed by whitespace
HasExactlyHashes(line, n) ==
    RunEnd(line, 0, {"#"}) = n /\ At(line, n) \in Whitespace

\* line without its heading prefix (1 to 6 '#' and the whitespace after them)
WithoutHeadingPrefix(line) ==
    IF HeadingPrefix(line) = -1 THEN line ELSE Slice(line, HeadingPrefix(line), Len(line))

\* C7: headingN. When every covered line starts with exactly N '#' followed by
\* whitespace, the heading prefix is stripped from every line; otherwise every
\* covered line becomes N '#', one space and the line without its existing
\* heading prefix of 1 to 6 '#'.
C7_HeadingLevel ==
    call.action \in HeadingLevelActions =>
        LET lines == CoveredLines
            n == LevelOf(call.action)
            stripped == [k \in 1..Len(lines) |-> WithoutHeadingPrefix(lines[k])]
            set == [k \in 1..Len(lines) |->
                       Repeat("#", n) \o <<" ">> \o WithoutHeadingPrefix(lines[k])]
        IN IF \A k \in 1..Len(lines) : HasExactlyHashes(lines[k], n)
           THEN CoveredReplacedBy(stripped)
           ELSE CoveredReplacedBy(set)

\* C7 witness: heading3 has run on two covered lines, one a level-2 heading and
\* one plain, and both now start with '### ' followed by their text.
C7_Witness ==
    /\ call.action = "heading3"
    /\ Len(CoveredLines) = 2
    /\ HasExactlyHashes(CoveredLines[1], 2)
    /\ HeadingPrefix(CoveredLines[2]) = -1
    /\ CoveredLines[2] # <<>>
    /\ text = <<"#", "#", "#", " ">> \o WithoutHeadingPrefix(CoveredLines[1]) \o <<"\n">>
                 \o <<"#", "#", "#", " ">> \o CoveredLines[2]

\* C8: generic heading. When every covered line has a heading prefix of 1 to 6
\* '#', the prefix is stripped from every line; otherwise every covered line
\* becomes '# ' followed by its text without a heading prefix.
C8_GenericHeading ==
    call.action = "heading" =>
        LET lines == CoveredLines
            stripped == [k \in 1..Len(lines) |-> WithoutHeadingPrefix(lines[k])]
            set == [k \in 1..Len(lines) |-> <<"#", " ">> \o WithoutHeadingPrefix(lines[k])]
        IN IF \A k \in 1..Len(lines) : HeadingPrefix(lines[k]) # -1
           THEN CoveredReplacedBy(stripped)
           ELSE CoveredReplacedBy(set)

\* The literal prefix of the quote and unorderedList actions.
LiteralPrefix(action) == IF action = "quote" THEN <<">", " ">> ELSE <<"-", " ">>

\* C9 as stated: quote and unorderedList toggle a literal prefix. The prefix is
\* added to every covered line unless every covered line already starts with that
\* literal prefix, in which case it is removed from every covered line.
C9_LiteralPrefixToggle ==
    call.action \in {"quote", "unorderedList"} =>
        LET lines == CoveredLines
            prefix == LiteralPrefix(call.action)
            stripped == [k \in 1..Len(lines) |-> Slice(lines[k], Len(prefix), Len(lines[k]))]
            added == [k \in 1..Len(lines) |-> prefix \o lines[k]]
        IN IF \A k \in 1..Len(lines) : StartsWith(lines[k], prefix, 0)
           THEN CoveredReplacedBy(stripped)
           ELSE CoveredReplacedBy(added)

\* The length of the prefix the action recognises at the start of line, -1 when
\* there is none: for quote '>' and at most one whitespace character after it, for
\* unorderedList one of '-', '*', '+' and the whole whitespace run after it.
RecognisedPrefix(action, line) ==
    IF action = "quote"
    THEN IF At(line, 0) # ">" THEN -1 ELSE IF At(line, 1) \in Whitespace THEN 2 ELSE 1
    ELSE IF At(line, 0) \in {"-", "*", "+"} /\ At(line, 1) \in Whitespace
         THEN RunEnd(line, 1, Whitespace)
         ELSE -1

\* C9 as amended: quote and unorderedList decide by a pattern, not by the literal
\* prefix. When every covered line starts with a recognised prefix, the recognised
\* prefix is removed from every line; otherwise the literal prefix ('> ' or '- ')
\* is put in front of every covered line as it is.
C9_PatternPrefixToggle ==
    call.action \in {"quote", "unorderedList"} =>
        LET lines == CoveredLines
            stripped == [k \in 1..Len(lines) |->
                            Slice(lines[k], RecognisedPrefix(call.action, lines[k]),
                                  Len(lines[k]))]
            added == [k \in 1..Len(lines) |-> LiteralPrefix(call.action) \o lines[k]]
        IN IF \A k \in 1..Len(lines) : RecognisedPrefix(call.action, lines[k]) # -1
           THEN CoveredReplacedBy(stripped)
           ELSE CoveredReplacedBy(added)

\* C9 witness: unorderedList has run on two covered lines, a '*' item with two
\* spaces and a quote line; the literal prefix went in front of both as they were.
C9_Witness ==
    /\ call.action = "unorderedList"
    /\ Len(CoveredLines) = 2
    /\ CoveredLines[1] = <<"*", " ", " ", "a">>
    /\ CoveredLines[2] = <<">", "a">>
    /\ text = <<"-", " ", "*", " ", " ", "a", "\n", "-", " ", ">", "a">>

\* C10: divider. When every covered line is a valid horizontal-rule line, every
\* covered line is replaced by an empty line; otherwise every covered line is
\* replaced by '---'. The content of the lines is discarded and their number kept.
C10_Divider ==
    call.action = "divider" =>
        LET lines == CoveredLines
            blank == [k \in 1..Len(lines) |-> <<>>]
            rule == [k \in 1..Len(lines) |-> <<"-", "-", "-">>]
            replaced == SplitLines(Slice(text, Covered.start,
                                         Len(text) - (Len(call.text) - Covered.end)))
        IN /\ IF \A k \in 1..Len(lines) : HORIZONTAL_RULE_PATTERN(lines[k])
              THEN CoveredReplacedBy(blank)
              ELSE CoveredReplacedBy(rule)
           /\ Len(replaced) = Len(lines)

\* C10 witness: divider has run on two covered lines of which only one was a
\* rule, and both are now '---'.
C10_Witness ==
    /\ call.action = "divider"
    /\ Len(CoveredLines) = 2
    /\ HORIZONTAL_RULE_PATTERN(CoveredLines[1])
    /\ ~HORIZONTAL_RULE_PATTERN(CoveredLines[2])
    /\ CoveredLines[2] # <<>>
    /\ text = <<"-", "-", "-", "\n", "-", "-", "-">>

\* C11 as stated: codeBlock. If the first and the last covered line both start
\* with a fence, those lines are removed and the lines between them kept;
\* otherwise the covered lines are kept and wrapped in a leading and a trailing
\* fence line. A single covered line is both the first and the last one.
C11_CodeBlockToggle ==
    call.action = "codeBlock" =>
        LET lines == CoveredLines
        IN IF StartsWith(lines[1], Fence, 0) /\ StartsWith(lines[Len(lines)], Fence, 0)
           THEN CoveredReplacedBy(SubSeq(lines, 2, Len(lines) - 1))
           ELSE CoveredReplacedBy(<<Fence>> \o lines \o <<Fence>>)

\* C11 as amended: the fences are removed only when at least two lines are
\* covered and the first and the last of them start with a fence; in every other
\* case, a single covered fence line included, the covered lines are kept and
\* wrapped in a leading and a trailing fence line.
C11_CodeBlockToggleOfTwoLines ==
    call.action = "codeBlock" =>
        LET lines == CoveredLines
        IN IF /\ Len(lines) >= 2
              /\ StartsWith(lines[1], Fence, 0)
              /\ StartsWith(lines[Len(lines)], Fence, 0)
           THEN CoveredReplacedBy(SubSeq(lines, 2, Len(lines) - 1))
           ELSE CoveredReplacedBy(<<Fence>> \o lines \o <<Fence>>)

\* C11 witness: codeBlock has run on three covered lines, a fence with a
\* language, a non-empty line and a closing fence, and the text is now the
\* middle line alone.
C11_Witness ==
    /\ call.action = "codeBlock"
    /\ Len(CoveredLines) = 3
    /\ CoveredLines[1] = Fence \o <<"j">>
    /\ CoveredLines[2] # <<>>
    /\ CoveredLines[3] = Fence
    /\ text = CoveredLines[2]

\* The content a block action puts in place of the covered range.
CoveredNewContent == JoinLines(transformLinesByAction(call.action, CoveredLines))

\* C12: selection after a block action. With rs the start of the replaced range,
\* old its content and new the content put in its place: a caret c moves to
\* rs + max(0, min(|new|, (c - rs) + (|new| - |old|))), which lies inside the
\* replaced block; a range becomes [rs, rs + |new|], the whole replaced block.
C12_SelectionAfterBlockAction ==
    call.action \in BlockActions =>
        LET rs == Covered.start
            old == Covered.content
            new == CoveredNewContent
            c == call.selection.start
            offset == Max(0, Min(Len(new), (c - rs) + (Len(new) - Len(old))))
        IN /\ Slice(text, rs, rs + Len(new)) = new
           /\ IF IsCaret(call.selection)
              THEN /\ selection = [start |-> rs + offset, end |-> rs + offset]
                   /\ rs <= selection.start
                   /\ selection.start <= rs + Len(new)
              ELSE /\ selection = [start |-> rs, end |-> rs + Len(new)]
                   /\ Slice(text, selection.start, selection.end) = new

\* C12 witness: heading2 has run with the caret inside the '## ' prefix of a
\* level-2 heading line; the shifted offset would be negative and the caret is
\* at the start of the replaced block.
C12_Witness ==
    /\ call.action = "heading2"
    /\ IsCaret(call.selection)
    /\ Len(CoveredNewContent) > 0
    /\ (call.selection.start - Covered.start)
          + (Len(CoveredNewContent) - Len(Covered.content)) < 0
    /\ selection.start = Covered.start

\* C13: image action. For every text and selection the returned text is the input
\* with the template '![](url)' inserted at selection.start and nothing removed,
\* and the new selection is a caret at selection.start + 2, between the brackets.
C13_ImageAction ==
    call.action = "image" =>
        LET c == call.selection.start
        IN /\ text = InsertAt(call.text, c, ImageTemplate)
           /\ Len(text) = Len(call.text) + 8
           /\ selection = [start |-> c + 2, end |-> c + 2]
           /\ At(text, selection.start - 1) = "["
           /\ At(text, selection.start) = "]"

\* C13 witness: image has run on a non-empty selection in the middle of a text;
\* the selected characters are still there, after the template.
C13_Witness ==
    /\ call.action = "image"
    /\ 0 < call.selection.start
    /\ call.selection.start < call.selection.end
    /\ Len(text) = Len(call.text) + 8
    /\ Slice(text, call.selection.start + 8, call.selection.end + 8)
          = Slice(call.text, call.selection.start, call.selection.end)

\* C14: frame condition. Every block action and the image action return the list
\* of active inline actions they were given, same members in the same order, for
\* every text and selection.
C14_ActiveInlineActionsKept ==
    call.action \in BlockActions \cup {"image"} =>
        activeInlineActions = call.activeInlineActions

\* C14 witness: quote has changed the text of a call made with four active
\* inline actions, and the four are still listed in the order they came in.
C14_Witness ==
    /\ call.action = "quote"
    /\ text # call.text
    /\ Len(call.activeInlineActions) = 4
    /\ activeInlineActions = <<"code", "bold", "strikethrough", "italic">>

(***************************************************************************)
(* Claims on feature gating and on the inline and block grammar            *)
(***************************************************************************)

\* The feature list is defined and does not name the feature.
Lacks(fs, feature) == fs # Undefined /\ ~Includes(fs, feature)

\* content holds '![' at index p
BangBracketAt(content, p) == At(content, p) = "!" /\ At(content, p + 1) = "["

\* The index after the ')' of a syntactically complete '![alt](src)' that starts
\* at index p of content, -1 when the pattern is not complete: the first unescaped
\* ']' after '![' is followed by '(' and an unescaped ')' follows.
CompleteImageEnd(content, p) ==
    LET altClose == findUnescapedToken(content, <<"]">>, p + 2)
        srcClose == findUnescapedToken(content, <<")">>, altClose + 2)
    IN IF BangBracketAt(content, p) /\ altClose # -1 /\ At(content, altClose + 1) = "("
          /\ srcClose # -1
       THEN srcClose + 1
       ELSE -1

\* The number of Link nodes in a list of inline nodes, at any depth.
RECURSIVE LinkCount(_)
LinkCount(nodes) ==
    IF Len(nodes) = 0 THEN 0
    ELSE (IF nodes[1].type = "link" THEN 1 ELSE 0)
         + (IF "children" \in DOMAIN nodes[1] THEN LinkCount(nodes[1].children) ELSE 0)
         + LinkCount(Tail(nodes))

\* The iteration of an inline scan at a '![' consumes the whole pattern as literal
\* text when it is complete, and the '!' alone when it is not.
ConsumesDisabledImage(content, cursor, tok) ==
    LET e == CompleteImageEnd(content, cursor)
    IN IF e # -1 THEN tok.kind = "imageText" /\ tok.next = e
       ELSE tok.kind = "bang" /\ tok.next = cursor + 1

\* C15: image-disabled containment. Under a defined feature list without image,
\* at every scan position that holds '![' both inline scans consume a complete
\* '![alt](src)' whole as literal text and otherwise the '!' alone, so that the
\* next scan position is the '['. On an input that starts with a complete image,
\* parseMarkdownInline and the highlighter return its characters as the start of
\* a text node or text segment, and the parser returns no Link node beyond those
\* of the rest of the input.
C15_ImageDisabledContainment ==
    Lacks(features, "image") =>
        /\ entry = "none" =>
              \A content \in Substrings(markdown) : \A cursor \in 0..(Len(content) - 2) :
                  BangBracketAt(content, cursor) =>
                      /\ ConsumesDisabledImage(content, cursor,
                                               InlineToken(content, cursor, features))
                      /\ ConsumesDisabledImage(content, cursor,
                                               HighlightToken(content, cursor, features))
        /\ (entry = "parseMarkdownInline" /\ BangBracketAt(markdown, 0)) =>
              LET e == CompleteImageEnd(markdown, 0)
                  from == IF e # -1 THEN e ELSE 1
                  rest == parseMarkdownInline(Slice(markdown, from, Len(markdown)), features)
              IN /\ result[1].type = "text"
                 /\ Slice(result[1].content, 0, from) = Slice(markdown, 0, from)
                 /\ LinkCount(result) = LinkCount(rest)
        /\ (entry = "highlightMarkdown" /\ BangBracketAt(markdown, 0)) =>
              LET line == SplitLines(markdown)[1]
                  e == CompleteImageEnd(line, 0)
                  from == IF e # -1 THEN e ELSE 1
              IN /\ result[1].type = "text"
                 /\ Slice(result[1].text, 0, from) = Slice(line, 0, from)

\* C15 witness: parseMarkdownInline has run without the image feature on a
\* complete image followed by a link; the image is the text node in front and the
\* only Link node is the one of the link that follows.
C15_Witness ==
    /\ entry = "parseMarkdownInline"
    /\ Lacks(features, "image")
    /\ markdown = ImageSample \o LinkSample
    /\ Len(result) = 2
    /\ result[1] = [type |-> "text", content |-> ImageSample]
    /\ result[2].type = "link"

\* A node of the given type occurs in a list of block or inline nodes, at any
\* depth (children of a container, items of a list).
RECURSIVE HasNode(_, _)
HasNode(nodes, type) ==
    \E k \in 1..Len(nodes) :
        \/ nodes[k].type = type
        \/ IF "children" \in DOMAIN nodes[k] THEN HasNode(nodes[k].children, type)
           ELSE FALSE
        \/ IF "items" \in DOMAIN nodes[k]
           THEN \E j \in 1..Len(nodes[k].items) : HasNode(nodes[k].items[j], type)
           ELSE FALSE

HasSegment(segs, type) == \E k \in 1..Len(segs) : segs[k].type = type

\* A segment of a heading line of the given level: its meta says so.
HasHeadingSegment(segs, level) ==
    \E k \in 1..Len(segs) :
        IF "meta" \in DOMAIN segs[k]
        THEN IF "headingLevel" \in DOMAIN segs[k].meta
             THEN segs[k].meta.headingLevel = ToDecimal(level)
             ELSE FALSE
        ELSE FALSE

HasHeadingNode(nodes, level) ==
    \E k \in 1..Len(nodes) :
        IF nodes[k].type = "heading" THEN nodes[k].level = level ELSE FALSE

HasListNode(nodes, ordered) ==
    \E k \in 1..Len(nodes) :
        IF nodes[k].type = "list" THEN nodes[k].ordered = ordered ELSE FALSE

\* The features whose construct carries the name of the feature, as a segment
\* type and as a node type.
SameNameFeatures == {"bold", "italic", "strikethrough", "code", "codeBlock", "image"}

NoHeadingFeature(fs) == fs # Undefined /\ \A i \in 1..Len(fs) : fs[i] \notin HeadingFeatures

\* C16: feature gating of the output. Under a defined feature list that lacks a
\* feature, highlightMarkdown returns no segment of that feature's type (bold,
\* italic, strikethrough, code, codeBlock, image, horizontalRule for divider,
\* quote and quoteMarker for quote, heading for the heading features, listMarker
\* when both list features are missing), and parseMarkdown and parseMarkdownInline
\* return no node of the matching type at any depth. With features undefined
\* every feature is enabled: the result is the one of the list of all features.
C16_FeatureGating ==
    /\ entry = "highlightMarkdown" =>
          /\ \A f \in SameNameFeatures : Lacks(features, f) => ~HasSegment(result, f)
          /\ Lacks(features, "divider") => ~HasSegment(result, "horizontalRule")
          /\ Lacks(features, "quote") =>
                ~HasSegment(result, "quote") /\ ~HasSegment(result, "quoteMarker")
          /\ (Lacks(features, "unorderedList") /\ Lacks(features, "orderedList")) =>
                ~HasSegment(result, "listMarker")
          /\ NoHeadingFeature(features) => ~HasSegment(result, "heading")
          /\ \A level \in 1..6 :
                (Lacks(features, "heading") /\ Lacks(features, HeadingName(level))) =>
                    ~HasHeadingSegment(result, level)
          /\ features = Undefined =>
                result = highlightMarkdown(markdown, DEFAULT_MARKDOWN_FEATURES)
    /\ entry \in {"parseMarkdown", "parseMarkdownInline"} =>
          /\ \A f \in SameNameFeatures : Lacks(features, f) => ~HasNode(result, f)
          /\ Lacks(features, "divider") => ~HasNode(result, "horizontalRule")
          /\ Lacks(features, "quote") => ~HasNode(result, "blockquote")
          /\ Lacks(features, "unorderedList") => ~HasListNode(result, FALSE)
          /\ Lacks(features, "orderedList") => ~HasListNode(result, TRUE)
          /\ NoHeadingFeature(features) => ~HasNode(result, "heading")
          /\ \A level \in 1..6 :
                (Lacks(features, "heading") /\ Lacks(features, HeadingName(level))) =>
                    ~HasHeadingNode(result, level)
    /\ (entry = "parseMarkdown" /\ features = Undefined) =>
          result = parseMarkdown(markdown, DEFAULT_MARKDOWN_FEATURES)
    /\ (entry = "parseMarkdownInline" /\ features = Undefined) =>
          result = parseMarkdownInline(markdown, DEFAULT_MARKDOWN_FEATURES)
    /\ features = Undefined =>
          \A f \in SameNameFeatures \cup HeadingFeatures
                      \cup {"divider", "quote", "unorderedList", "orderedList"} :
              isMarkdownFeatureEnabled(features, f)

\* C16 witness: highlightMarkdown has run with bold as the only feature on a
\* line that reads as a heading holding an italic span when every feature is
\* enabled, and returned the line as one plain text segment.
C16_Witness ==
    /\ entry = "highlightMarkdown"
    /\ features = <<"bold">>
    /\ HEADING_RE(markdown).matched
    /\ \E cursor \in 0..(Len(markdown) - 1) :
          HighlightToken(markdown, cursor, Undefined).kind = "italic"
    /\ result = <<[text |-> markdown, type |-> "text"]>>

\* The feature that names one heading level.
LevelFeature(level) ==
    <<"heading1", "heading2", "heading3", "heading4", "heading5", "heading6">>[level]

\* C17: isHeadingLevelEnabled(features, level) is true exactly when features is
\* undefined, or holds the generic heading, or holds the heading feature of that
\* very level; the list that holds heading2 alone enables level 2 and no other.
C17_HeadingLevelEnabled ==
    entry = "isHeadingLevelEnabled" =>
        /\ result.enabled <=>
              \/ features = Undefined
              \/ Includes(features, "heading")
              \/ Includes(features, LevelFeature(result.level))
        /\ features = <<"heading2">> => (result.enabled <=> result.level = 2)

\* C17 witness: the function has answered no for level 6 under a list that names
\* heading features of other levels only.
C17_Witness ==
    /\ entry = "isHeadingLevelEnabled"
    /\ features = <<"heading2">>
    /\ result.level = 6
    /\ ~result.enabled

\* token occurs in t at index i
Occurs(t, token, i) ==
    /\ i + Len(token) <= Len(t)
    /\ \A k \in 1..Len(token) : t[i + k] = token[k]

\* The length of the run of consecutive backslashes that ends right before index i.
BackslashRun(t, i) ==
    Cardinality({n \in 1..i : \A k \in 1..n : t[i - k + 1] = "\\"})

\* The indices findUnescapedToken may answer with: at or after from, where the
\* token occurs after a backslash run of even length.
UnescapedOccurrences(t, token, from) ==
    {i \in from..Len(t) : Occurs(t, token, i) /\ BackslashRun(t, i) % 2 = 0}

\* C20: findUnescapedToken(text, token, fromIndex) returns the smallest index
\* i >= fromIndex at which token occurs in text after a run of consecutive
\* backslashes of even length; it returns -1 when there is no such index, when
\* token is empty and when fromIndex is beyond the end of text.
C20_FindUnescapedToken ==
    entry = "findUnescapedToken" =>
        LET found == UnescapedOccurrences(markdown, result.token, result.startIndex)
        IN /\ IF Len(result.token) = 0 \/ found = {}
              THEN result.index = -1
              ELSE result.index = SetMin(found)
           /\ result.startIndex > Len(markdown) => result.index = -1

\* C20 witness: the search for '*' from index 0 has passed an occurrence behind
\* one backslash and answered with a later one behind two backslashes or none.
C20_Witness ==
    /\ entry = "findUnescapedToken"
    /\ result.token = <<"*">>
    /\ result.startIndex = 0
    /\ result.index >= 3
    /\ \E i \in 1..(result.index - 1) :
          Occurs(markdown, <<"*">>, i) /\ BackslashRun(markdown, i) = 1

\* The positions the while loop of an inline scan of content visits from cursor
\* on: those of parseInlineHighlight when highlight holds, of parseMarkdownInline
\* otherwise.
RECURSIVE ScanPositions(_, _, _, _)
ScanPositions(content, cursor, fs, highlight) ==
    IF cursor >= Len(content) THEN {}
    ELSE LET tok == IF highlight THEN HighlightToken(content, cursor, fs)
                    ELSE InlineToken(content, cursor, fs)
         IN {cursor} \cup ScanPositions(content, tok.next, fs, highlight)

\* content holds a backslash at index p and a character after it
EscapeAt(content, p) == At(content, p) = "\\" /\ p + 1 < Len(content)

\* In the scan of content, the character after a backslash at a scan position
\* stands behind a backslash run of odd length and is not a scan position itself,
\* and no construct found at a scan position has its closing marker there or at
\* any other index behind a backslash run of odd length.
EscapedNeverOpensOrCloses(content, fs, highlight) ==
    LET visited == ScanPositions(content, 0, fs, highlight)
    IN /\ \A p \in visited : EscapeAt(content, p) =>
             /\ BackslashRun(content, p + 1) % 2 = 1
             /\ p + 1 \notin visited
       /\ \A q \in visited :
             LET tok == IF highlight THEN HighlightToken(content, q, fs)
                        ELSE InlineToken(content, q, fs)
             IN /\ tok.close >= 0 => BackslashRun(content, tok.close) % 2 = 0
                /\ tok.close2 >= 0 => BackslashRun(content, tok.close2) % 2 = 0

\* C18: escape handling. At any scan position a backslash followed by a character
\* X consumes exactly two characters; parseMarkdownInline appends X to the text
\* run (a new Text node, or the Text node before it), the highlighter pushes the
\* backslash as a delimiter segment and X as text after it; X is never a scan
\* position and never the closing marker of a construct, so it opens and closes
\* nothing.
C18_EscapeHandling ==
    /\ entry = "none" =>
          /\ \A content \in Substrings(markdown) : \A cursor \in 0..(Len(content) - 2) :
                EscapeAt(content, cursor) =>
                    LET X == <<At(content, cursor + 1)>>
                        tok == InlineToken(content, cursor, features)
                        htok == HighlightToken(content, cursor, features)
                        before == <<TextNode(<<"a">>)>>
                    IN /\ tok.kind = "escape" /\ tok.next = cursor + 2
                       /\ htok.kind = "escape" /\ htok.next = cursor + 2
                       /\ InlineEmit(<<>>, content, cursor, tok, features)
                             = <<TextNode(X)>>
                       /\ InlineEmit(before, content, cursor, tok, features)
                             = <<TextNode(<<"a">> \o X)>>
                       /\ HighlightEmit(<<>>, content, cursor, htok, NoContext, features)
                             = <<Delimiter(<<"\\">>), RawSegment(X, "text", NoContext)>>
          /\ EscapedNeverOpensOrCloses(markdown, features, FALSE)
          /\ EscapedNeverOpensOrCloses(markdown, features, TRUE)
    /\ (entry = "parseMarkdownInline" /\ EscapeAt(markdown, 0)) =>
          /\ result[1].type = "text"
          /\ result[1].content[1] = At(markdown, 1)
    /\ (entry = "highlightMarkdown" /\ EscapeAt(SplitLines(markdown)[1], 0)) =>
          /\ result[1] = [text |-> <<"\\">>, type |-> "delimiter"]
          /\ result[2].type = "text"
          /\ result[2].text[1] = At(markdown, 1)

\* C18 witness: parseMarkdownInline has run on an italic span whose inside ends
\* with an escaped asterisk; the span closes at the asterisk after it and the
\* escaped one is the text inside.
C18_Witness ==
    /\ entry = "parseMarkdownInline"
    /\ markdown = <<"*", "\\", "*", "*">>
    /\ result = <<[type |-> "italic", children |-> <<TextNode(<<"*">>)>>]>>

\* line starts with exactly n '#', 1 <= n <= 6, followed by whitespace and at least
\* one more character of content. The '#' is the first character of the line, so
\* no backslash stands before it.
HeadingLineOf(line, n) ==
    /\ n \in 1..6
    /\ RunEnd(line, 0, {"#"}) = n
    /\ At(line, n) \in Whitespace
    /\ Len(line) > n + 1

LevelEnabled(fs, n) ==
    fs = Undefined \/ Includes(fs, "heading") \/ Includes(fs, LevelFeature(n))

\* Some line is a heading line of level n, and level n is enabled.
HeadingSource(lines, fs, n) ==
    LevelEnabled(fs, n) /\ \E k \in 1..Len(lines) : HeadingLineOf(lines[k], n)

StartsWithSevenHashes(line) == RunEnd(line, 0, {"#"}) >= 7

\* C19 as stated: heading recognition. A Heading block of level n (parser) or the segments
\* of a heading line of level n (highlighter) come only from a line that starts
\* with exactly n '#', 1 <= n <= 6, followed by whitespace and content, with
\* level n enabled and the '#' not escaped; a line with 7 or more leading '#' is
\* never a heading and is parsed as a paragraph.
C19_HeadingRecognition ==
    /\ entry = "parseMarkdown" =>
          LET lines == SplitLines(NormalizeNewlines(markdown))
          IN /\ \A k \in 1..Len(result) :
                   result[k].type = "heading" =>
                       HeadingSource(lines, features, result[k].level)
             /\ (Len(lines) = 1 /\ StartsWithSevenHashes(lines[1])) =>
                   Len(result) = 1 /\ result[1].type = "paragraph"
    /\ entry = "highlightMarkdown" =>
          LET lines == SplitLines(markdown)
          IN /\ \A n \in 1..6 :
                   HasHeadingSegment(result, n) => HeadingSource(lines, features, n)
             /\ HasSegment(result, "heading") =>
                   \E n \in 1..6 : HeadingSource(lines, features, n)
             /\ (Len(lines) = 1 /\ StartsWithSevenHashes(lines[1])) =>
                   /\ ~HasSegment(result, "heading")
                   /\ \A n \in 1..6 : ~HasHeadingSegment(result, n)

\* line starts with exactly n '#', 1 <= n <= 6, followed by whitespace; nothing
\* need follow the whitespace.
MarkerLineOf(line, n) ==
    /\ n \in 1..6
    /\ RunEnd(line, 0, {"#"}) = n
    /\ At(line, n) \in Whitespace

MarkerSource(lines, fs, n) ==
    LevelEnabled(fs, n) /\ \E k \in 1..Len(lines) : MarkerLineOf(lines[k], n)

\* C19 as amended: the parser needs content after the whitespace, the highlighter
\* does not. A Heading block of level n comes only from a line that starts with
\* exactly n '#', 1 <= n <= 6, followed by whitespace and at least one more
\* character, with level n enabled; the segments of a heading line of level n come
\* only from a line that starts with exactly n '#' followed by whitespace, with
\* level n enabled, whether or not anything follows. A line with 7 or more
\* leading '#' is a heading for neither and is parsed as a paragraph.
C19_HeadingRecognitionByMarker ==
    /\ entry = "parseMarkdown" =>
          LET lines == SplitLines(NormalizeNewlines(markdown))
          IN /\ \A k \in 1..Len(result) :
                   result[k].type = "heading" =>
                       HeadingSource(lines, features, result[k].level)
             /\ (Len(lines) = 1 /\ StartsWithSevenHashes(lines[1])) =>
                   Len(result) = 1 /\ result[1].type = "paragraph"
    /\ entry = "highlightMarkdown" =>
          LET lines == SplitLines(markdown)
          IN /\ \A n \in 1..6 :
                   HasHeadingSegment(result, n) => MarkerSource(lines, features, n)
             /\ HasSegment(result, "heading") =>
                   \E n \in 1..6 : MarkerSource(lines, features, n)
             /\ (Len(lines) = 1 /\ StartsWithSevenHashes(lines[1])) =>
                   /\ ~HasSegment(result, "heading")
                   /\ \A n \in 1..6 : ~HasHeadingSegment(result, n)

\* C19 witness: under a list that names heading2 alone the highlighter has taken
\* the line '## ', which has nothing after the whitespace, for a level-2 heading.
C19_Witness ==
    /\ entry = "highlightMarkdown"
    /\ Lacks(features, "heading")
    /\ Includes(features, "heading2")
    /\ markdown = <<"#", "#", " ">>
    /\ HasHeadingSegment(result, 2)

(***************************************************************************)
(* Claims on unterminated constructs, fences, newlines and the AST          *)
(***************************************************************************)

\* The opening markers that stand at index p of content, with their feature
\* enabled in fs, for which the scan finds no matching unescaped closer.
UnclosedMarkersAt(content, p, fs) ==
    LET c == At(content, p)
        two == Slice(content, p, p + 2)
        altClose == findUnescapedToken(content, <<"]">>, p + 2)
        labelClose == findUnescapedToken(content, <<"]">>, p + 1)
    IN {m \in {<<Backtick>>, <<"*", "*">>, <<"_", "_">>, <<"~", "~">>,
               <<"*">>, <<"_">>, <<"!", "[">>, <<"[">>} :
          /\ StartsWith(content, m, p)
          /\ CASE m = <<Backtick>> ->
                    /\ isMarkdownFeatureEnabled(fs, "code")
                    /\ findUnescapedToken(content, m, p + 1) = -1
               [] m \in {<<"*", "*">>, <<"_", "_">>} ->
                    /\ isMarkdownFeatureEnabled(fs, "bold")
                    /\ findUnescapedToken(content, m, p + 2) = -1
               [] m = <<"~", "~">> ->
                    /\ isMarkdownFeatureEnabled(fs, "strikethrough")
                    /\ findUnescapedToken(content, m, p + 2) = -1
               [] m \in {<<"*">>, <<"_">>} ->
                    /\ isMarkdownFeatureEnabled(fs, "italic")
                    /\ findUnescapedToken(content, m, p + 1) = -1
               [] m = <<"!", "[">> ->
                    \/ altClose = -1
                    \/ At(content, altClose + 1) # "("
                    \/ findUnescapedToken(content, <<")">>, altClose + 2) = -1
               [] OTHER ->
                    \/ labelClose = -1
                    \/ At(content, labelClose + 1) # "("
                    \/ findUnescapedToken(content, <<")">>, labelClose + 2) = -1}

\* At every position the scan of content visits where an opening marker has no
\* closer, the iteration emits one literal character and moves one character on.
UnclosedDegradeToText(content, fs, highlight) ==
    \A p \in ScanPositions(content, 0, fs, highlight) :
        UnclosedMarkersAt(content, p, fs) # {} =>
            LET tok == IF highlight THEN HighlightToken(content, p, fs)
                       ELSE InlineToken(content, p, fs)
            IN tok.kind \in {"char", "bang"} /\ tok.next = p + 1

\* C21: unterminated constructs degrade to literal text. In parseMarkdownInline
\* and in the highlighter, an opening marker with no matching unescaped closer is
\* emitted as literal text, the scan resumes one character later, and no
\* emphasis, code, image or link construct is produced for it.
C21_UnterminatedDegrade ==
    /\ entry = "none" =>
          /\ UnclosedDegradeToText(markdown, features, FALSE)
          /\ UnclosedDegradeToText(markdown, features, TRUE)
    /\ (entry = "parseMarkdownInline" /\ UnclosedMarkersAt(markdown, 0, features) # {}) =>
          /\ result[1].type = "text"
          /\ result[1].content[1] = At(markdown, 0)

\* The index of the line that segment k of segs belongs to: the number of
\* newline segments before it.
LineOfSegment(segs, k) ==
    Cardinality({j \in 1..(k - 1) : segs[j].text = <<"\n">>})

\* The indices of the lines that segs holds as a 'codeBlock' segment.
HighlightedCodeLines(segs) ==
    {LineOfSegment(segs, k) : k \in {j \in 1..Len(segs) : segs[j].type = "codeBlock"}}

\* The indices of the lines that the block scan from cursor places in the content
\* of a CodeBlock: those strictly between an opening fence and its closing fence.
RECURSIVE ParsedCodeLines(_, _, _)
ParsedCodeLines(lines, cursor, fs) ==
    IF cursor >= Len(lines) THEN {}
    ELSE LET step == BlockStep(lines, cursor, fs)
             here == IF step.blocks # <<>> /\ step.blocks[1].type = "codeBlock"
                     THEN (cursor + 1)..(step.next - 2) ELSE {}
         IN here \cup ParsedCodeLines(lines, step.next, fs)

\* C22: unmatched code fences are handled the same way by both parsers. For every
\* input, highlightMarkdown emits a line as a 'codeBlock' segment exactly when
\* parseMarkdown places that line in the content of a CodeBlock; after an opening
\* fence with no later closing fence highlightMarkdown emits no codeBlock segment.
C22_FenceAgreement ==
    entry = "highlightMarkdown" =>
        HighlightedCodeLines(result)
            = ParsedCodeLines(SplitLines(NormalizeNewlines(markdown)), 0, features)

(***************************************************************************)
(* Inputs built from whole lines, for the claims on the block scans         *)
(***************************************************************************)

\* Number of lines an input of the block scans is put together from.
MaxBlockLines == 4

\* One line of each kind the block scans tell apart: blank, plain, the fences
\* (bare, with a language, with trailing whitespace), heading, quote, list items
\* and rule.
BlockLineSamples ==
    { <<>>, <<"a">>, Fence, Fence \o <<"j", "s">>, Fence \o <<" ">>,
      <<"#", " ", "a">>, <<">", " ", "a">>, <<"-", " ", "a">>,
      <<"1", ".", " ", "a">>, <<"-", "-", "-">> }

RECURSIVE BlockTexts(_)
BlockTexts(n) ==
    IF n = 1 THEN BlockLineSamples
    ELSE LET shorter == BlockTexts(n - 1)
         IN shorter \cup {t \o <<"\n">> \o l : t \in shorter, l \in BlockLineSamples}

BlocksInit ==
    /\ markdown \in BlockTexts(MaxBlockLines)
    /\ features \in {Undefined, <<"bold">>, <<"codeBlock", "heading1", "unorderedList">>}
    /\ entry = "none"
    /\ result = <<>>
    /\ text = <<>>
    /\ selection = [start |-> 0, end |-> 0]
    /\ activeInlineActions = <<>>
    /\ call = NoCall
    /\ hook = NoHook

SpecBlocks == BlocksInit /\ [][CoreNext]_vars

\* The indices after cursor of the lines that are a closing fence: three
\* backticks followed by nothing but whitespace.
ClosingFencesAfter(lines, cursor) ==
    {j \in (cursor + 1)..(Len(lines) - 1) :
        /\ Slice(lines[j + 1], 0, 3) = Fence
        /\ \A k \in 3..(Len(lines[j + 1]) - 1) : At(lines[j + 1], k) \in Whitespace}

\* The lines strictly between the lines of index a and b, joined by line breaks.
RECURSIVE LinesBetween(_, _, _)
LinesBetween(lines, a, b) ==
    IF a + 1 >= b THEN <<>>
    ELSE IF a + 2 = b THEN lines[a + 2]
    ELSE lines[a + 2] \o <<"\n">> \o LinesBetween(lines, a + 1, b)

\* C23: fenced code in parseMarkdown. With codeBlock enabled, an opening fence line
\* produces a CodeBlock only if a later closing fence line exists; the content of
\* the block is the lines strictly between the two fences joined by line breaks
\* and the scan resumes at the line after the closing fence. With no closing
\* fence the opening line is handled as paragraph text and isBlockStart does not
\* treat it as a block boundary.
C23_FencedCode ==
    /\ entry = "none" =>
          LET lines == SplitLines(NormalizeNewlines(markdown))
          IN \A cursor \in 0..(Len(lines) - 1) :
                LET step == BlockStep(lines, cursor, features)
                    closers == ClosingFencesAfter(lines, cursor)
                    opening == /\ isMarkdownFeatureEnabled(features, "codeBlock")
                               /\ FENCE_PATTERN(lines[cursor + 1]).matched
                IN /\ (opening /\ closers # {}) =>
                          /\ Len(step.blocks) = 1
                          /\ step.blocks[1].type = "codeBlock"
                          /\ step.blocks[1].content
                                = LinesBetween(lines, cursor, SetMin(closers))
                          /\ step.next = SetMin(closers) + 1
                          /\ isBlockStart(lines, cursor, features)
                   /\ (opening /\ closers = {}) =>
                          /\ Len(step.blocks) = 1
                          /\ step.blocks[1].type = "paragraph"
                          /\ ~isBlockStart(lines, cursor, features)
                   /\ (step.blocks # <<>> /\ step.blocks[1].type = "codeBlock") =>
                          opening /\ closers # {}
    /\ entry = "parseMarkdown" =>
          LET lines == SplitLines(NormalizeNewlines(markdown))
              closers == ClosingFencesAfter(lines, 0)
          IN (isMarkdownFeatureEnabled(features, "codeBlock")
                /\ Slice(lines[1], 0, 3) = Fence /\ closers = {}) =>
                 /\ \A k \in 1..Len(result) : result[k].type # "codeBlock"
                 /\ result[1].type = "paragraph"

\* C23 witness: parseMarkdown has run on an opening fence with a language, two
\* content lines and a closing fence, and returned the one CodeBlock holding the
\* two lines.
C23_Witness ==
    /\ entry = "parseMarkdown"
    /\ markdown = Fence \o <<"j", "s", "\n", "a", "\n", "#", " ", "a", "\n">> \o Fence
    /\ Len(result) = 1
    /\ result[1].type = "codeBlock"
    /\ result[1].content = <<"a", "\n", "#", " ", "a">>

\* segs cut at its newline segments: the sequence of the runs of segments between
\* them, one run more than there are newline segments.
RECURSIVE SplitAtNewlines(_, _, _)
SplitAtNewlines(segs, k, current) ==
    IF k > Len(segs) THEN <<current>>
    ELSE IF segs[k].text = <<"\n">>
    THEN <<current>> \o SplitAtNewlines(segs, k + 1, <<>>)
    ELSE SplitAtNewlines(segs, k + 1, Append(current, segs[k]))

\* group opens with the delimiter segment of a heading line
IsHeadingGroup(group) ==
    /\ group # <<>>
    /\ group[1].type = "delimiter"
    /\ "meta" \in DOMAIN group[1]
    /\ group[1].meta.lineContext = "heading"

\* group holds the characters of line: all of them, or, for a heading line, the
\* '#' run, one space and what follows the whitespace run after the '#' run.
IsGroupOfLine(group, line) ==
    LET n == RunEnd(line, 0, {"#"})
    IN IF IsHeadingGroup(group)
       THEN ConcatText(group)
               = Slice(line, 0, n) \o <<" ">>
                    \o Slice(line, RunEnd(line, n, Whitespace), Len(line))
       ELSE ConcatText(group) = line

\* C24: newline segments. For an input of n lines highlightMarkdown emits exactly
\* n-1 segments whose text is a line break, one between the segments of each pair
\* of consecutive lines and none before the first or after the last line; the
\* segment has type 'heading' and carries the heading line's meta (lineContext and
\* headingLevel) if the line before it was recognised as a heading, and has type
\* 'text' and no meta otherwise.
C24_NewlineSegments ==
    entry = "highlightMarkdown" =>
        LET lines == SplitLines(markdown)
            groups == SplitAtNewlines(result, 1, <<>>)
            fenced == /\ isMarkdownFeatureEnabled(features, "codeBlock")
                      /\ \E i \in 1..Len(lines) : Slice(lines[i], 0, 3) = Fence
        IN /\ Cardinality({k \in 1..Len(result) : result[k].text = <<"\n">>})
                 = Len(lines) - 1
           /\ Len(groups) = Len(lines)
           /\ \A i \in 1..Len(lines) : IsGroupOfLine(groups[i], lines[i])
           /\ \A k \in 1..Len(result) :
                 result[k].text = <<"\n">> =>
                     LET before == groups[LineOfSegment(result, k) + 1]
                     IN IF IsHeadingGroup(before)
                        THEN /\ result[k]
                                   = [text |-> <<"\n">>, type |-> "heading",
                                      meta |-> before[1].meta]
                             /\ DOMAIN result[k].meta = {"lineContext", "headingLevel"}
                        ELSE result[k] = [text |-> <<"\n">>, type |-> "text"]
           /\ ~fenced =>
                 \A i \in 1..Len(lines) :
                    /\ IsHeadingGroup(groups[i]) <=>
                          \E n \in 1..6 :
                             MarkerLineOf(lines[i], n) /\ LevelEnabled(features, n)
                    /\ IsHeadingGroup(groups[i]) =>
                          groups[i][1].meta.headingLevel
                             = ToDecimal(RunEnd(lines[i], 0, {"#"}))

\* C24 witness: highlightMarkdown has run on three lines of which the first alone
\* is a heading; the line break after the heading is a heading segment with the
\* heading's meta, the one after the plain line a text segment.
C24_Witness ==
    /\ entry = "highlightMarkdown"
    /\ markdown = <<"#", " ", "a", "\n", "a", "\n", "a">>
    /\ features = Undefined
    /\ result[3] = [text |-> <<"\n">>, type |-> "heading",
                    meta |-> [lineContext |-> "heading", headingLevel |-> <<"1">>]]
    /\ result[5] = [text |-> <<"\n">>, type |-> "text"]
    /\ Len(result) = 6

\* No two consecutive nodes of the list are Text nodes, no Text node of it has
\* empty content, and the same holds of the children of every node that has some.
RECURSIVE WellMerged(_)
WellMerged(nodes) ==
    /\ \A k \in 1..Len(nodes) :
          /\ nodes[k].type = "text" => nodes[k].content # <<>>
          /\ "children" \in DOMAIN nodes[k] => WellMerged(nodes[k].children)
    /\ \A k \in 1..(Len(nodes) - 1) :
          ~(nodes[k].type = "text" /\ nodes[k + 1].type = "text")

\* Node lists the scan can hold before an iteration: empty, ending in a Text
\* node, ending in a node of another type.
MergedPrefixes ==
    { <<>>, <<TextNode(<<"a">>)>>,
      <<TextNode(<<"a">>), [type |-> "code", content |-> <<"a">>]>> }

\* C25: adjacency-merge invariant of the AST. In every node list returned by
\* parseMarkdownInline, at every nesting level (top level and the children of
\* Bold, Italic, Strikethrough and Link nodes), no two consecutive nodes are both
\* Text nodes and no Text node has empty content. Every iteration of the scan
\* keeps the property of the list it appends to.
C25_AdjacencyMerge ==
    /\ entry = "parseMarkdownInline" => WellMerged(result)
    /\ entry = "none" =>
          \A cursor \in 0..(Len(markdown) - 1) : \A before \in MergedPrefixes :
             WellMerged(InlineEmit(before, markdown, cursor,
                                   InlineToken(markdown, cursor, features), features))

\* C25 witness: parseMarkdownInline has run on an escaped asterisk followed by a
\* plain character; the two appended characters are one Text node.
C25_Witness ==
    /\ entry = "parseMarkdownInline"
    /\ markdown = <<"\\", "*", "a">>
    /\ result = <<TextNode(<<"*", "a">>)>>

(***************************************************************************)
(* Chained toolbar calls on a text the user selects in between calls        *)
(***************************************************************************)

\* Number of toolbar actions applied in a row, each at a selection of its own.
MaxEditCalls == 2

EditingInit ==
    /\ text \in { <<>>, <<"a">>, <<"\n", "a">>, <<"a", "\n", "b">>,
                  <<"#", " ", "a">> }
    /\ selection = [start |-> 0, end |-> 0]
    /\ activeInlineActions = <<>>
    /\ call = NoCall
    /\ hook = NoHook
    /\ markdown = <<>>
    /\ features = Undefined
    /\ entry = "none"
    /\ result = <<>>

\* One call of applyMarkdownToolbarAction with the text and the active inline
\* actions of the result before it and the selection sel: the selection of that
\* result, or the one the user has made since.
ApplyAtSelection(action, sel) ==
    LET next == applyMarkdownToolbarAction(action, text, sel, activeInlineActions)
    IN /\ text' = next.text
       /\ selection' = next.selection
       /\ activeInlineActions' = next.activeInlineActions
       /\ call' = [action |-> action, text |-> text, selection |-> sel,
                   activeInlineActions |-> activeInlineActions, n |-> call.n + 1]
       /\ UNCHANGED <<coreVars, hook>>

EditingNext ==
    /\ call.n < MaxEditCalls
    /\ \E sel \in Selections(text) : \E action \in ToolbarActions :
          ApplyAtSelection(action, sel)

SpecEditing == EditingInit /\ [][EditingNext]_vars

(***************************************************************************)
(* Claims on sequences of toolbar actions                                  *)
(***************************************************************************)

\* C26: the selection stays in bounds over any sequence of toolbar actions. From
\* any text and any selection with 0 <= start <= end <= |text|, feeding the text,
\* selection and activeInlineActions of each result into the next call, every
\* result of applyMarkdownToolbarAction, whatever the action, has
\* 0 <= selection.start <= selection.end <= |text of the result|.
C26_SelectionInBounds ==
    /\ 0 <= selection.start
    /\ selection.start <= selection.end
    /\ selection.end <= Len(text)

\* C26 witness: the second call of a sequence was a block action at the caret the
\* first call returned, in the middle of a text that the action made shorter.
C26_Witness ==
    /\ call.n = 2
    /\ call.action \in BlockActions
    /\ IsCaret(call.selection)
    /\ call.selection.start > 0
    /\ call.selection.start < Len(call.text)
    /\ Len(text) < Len(call.text)
    /\ selection.start < call.selection.start

\* The active list a call returned, against the one it was given: every member is
\* an inline action and occurs once; the action of the call has changed sides if
\* it was applied at a caret and is out if it was applied to a range; every other
\* inline action is in exactly when it was in before.
ActiveSetAfterCall ==
    call.n >= 1 =>
        /\ \A k \in 1..Len(activeInlineActions) :
              activeInlineActions[k] \in InlineActions
        /\ \A j \in 1..Len(activeInlineActions) : \A k \in 1..Len(activeInlineActions) :
              j # k => activeInlineActions[j] # activeInlineActions[k]
        /\ \A a \in InlineActions :
              Includes(activeInlineActions, a) <=>
                  IF call.action = a /\ IsCaret(call.selection)
                  THEN ~Includes(call.activeInlineActions, a)
                  ELSE IF call.action = a THEN FALSE
                  ELSE Includes(call.activeInlineActions, a)

\* C27: active-set invariant. Starting from an empty activeInlineActions and feeding
\* each result into the next call, after any sequence of calls (any actions, at
\* carets or ranges) activeInlineActions contains only bold, italic, strikethrough
\* and code, each at most once, and an action is a member exactly when it was
\* applied at a caret an odd number of times since a range wrap last removed it:
\* one caret call changes its membership, two in a row restore it, and a caret
\* call right after a range wrap of the same action makes it a member.
C27_ActiveSet ==
    [][ /\ ActiveSetAfterCall'
        /\ ( /\ call.n >= 1
             /\ call.action \in InlineActions
             /\ call'.action = call.action
             /\ IsCaret(call'.selection) )
           => IF IsCaret(call.selection)
              THEN Includes(activeInlineActions', call.action)
                      <=> Includes(call.activeInlineActions, call.action)
              ELSE Includes(activeInlineActions', call.action) ]_vars

\* C27 witness: bold was made active at a caret by the first call, and the second
\* call, a bold wrap of a range, has removed it again.
C27_Witness ==
    /\ call.n = 2
    /\ call.action = "bold"
    /\ ~IsCaret(call.selection)
    /\ call.activeInlineActions = <<"bold">>
    /\ activeInlineActions = <<>>

(***************************************************************************)
(* Claims on the block scan                                                *)
(***************************************************************************)

\* The values cursor takes at the top of the while loop of parseMarkdown, steps
\* holding for every line index the iteration of the loop at that index.
RECURSIVE BlockCursors(_, _)
BlockCursors(steps, cursor) ==
    IF cursor \notin DOMAIN steps THEN {}
    ELSE {cursor} \cup BlockCursors(steps, steps[cursor].next)

\* The iteration at cursor pushes one block and that block is made of the lines
\* from cursor up to the cursor it leaves: one blank line, heading or rule; a run
\* of quote lines, of list items, or of paragraph lines; or an opening fence, the
\* content lines and the closing fence.
ConsumesOwnLines(lines, cursor, step) ==
    LET block == step.blocks[1]
        taken == (cursor + 1)..step.next
    IN /\ Len(step.blocks) = 1
       /\ cursor < step.next
       /\ step.next <= Len(lines)
       /\ CASE block.type = "spacer" -> step.next = cursor + 1 /\ IsBlank(lines[cursor + 1])
            [] block.type \in {"heading", "horizontalRule"} ->
                  step.next = cursor + 1 /\ ~IsBlank(lines[cursor + 1])
            [] block.type = "blockquote" ->
                  \A k \in taken : At(Slice(lines[k], RunEnd(lines[k], 0, Whitespace),
                                            Len(lines[k])), 0) = ">"
            [] block.type = "list" ->
                  /\ Len(block.items) = step.next - cursor
                  /\ \A k \in taken : ~IsBlank(lines[k])
            [] block.type = "codeBlock" ->
                  /\ step.next >= cursor + 2
                  /\ Slice(lines[cursor + 1], 0, 3) = Fence
                  /\ Slice(lines[step.next], 0, 3) = Fence
                  /\ block.content = LinesBetween(lines, cursor, step.next - 1)
            [] block.type = "paragraph" ->
                  \A k \in taken : ~IsBlank(lines[k])

\* C28: line coverage of the block scan. In parseMarkdown the lines of the input
\* are consumed contiguously and in order, each line by exactly one emitted block
\* (a spacer, heading, rule, one line of a quote, list or paragraph, or a fence or
\* content line of a CodeBlock); no line is skipped, no line contributes to two
\* blocks, and the paragraph collector always consumes at least the line it
\* starts on.
C28_LineCoverage ==
    LET lines == SplitLines(NormalizeNewlines(markdown))
        steps == [c \in 0..(Len(lines) - 1) |-> BlockStep(lines, c, features)]
        cursors == BlockCursors(steps, 0)
    IN /\ entry = "none" =>
             /\ \A c \in cursors : ConsumesOwnLines(lines, c, steps[c])
             /\ \A i \in 0..(Len(lines) - 1) :
                   Cardinality({c \in cursors : c <= i /\ i < steps[c].next}) = 1
             /\ \A c \in 0..(Len(lines) - 1) :
                   (steps[c].blocks # <<>> => steps[c].blocks[1].type = "paragraph")
                       => ParagraphEnd(lines, c, features) > c
       /\ entry = "parseMarkdown" => Len(result) = Cardinality(cursors)

\* C28 witness: parseMarkdown has run on four lines, a paragraph of two lines, a
\* blank line and an opening fence that nothing closes, and returned a paragraph,
\* a spacer and a paragraph.
C28_Witness ==
    /\ entry = "parseMarkdown"
    /\ markdown = <<"a", "\n", "a", "\n", "\n">> \o Fence
    /\ features = Undefined
    /\ Len(result) = 3
    /\ result[1].type = "paragraph"
    /\ result[1].children = <<TextNode(<<"a", "\n", "a">>)>>
    /\ result[2].type = "spacer"
    /\ result[3].type = "paragraph"

(***************************************************************************)
(* useMarkdownEditor on a mounted or unmounted input, on both platforms     *)
(***************************************************************************)

\* Number of toolbar actions handled in a run of the hook.
MaxHookActions == 2

HookInit ==
    /\ text = <<"a">>
    /\ selection = [start |-> 0, end |-> 0]
    /\ activeInlineActions = <<>>
    /\ call = NoCall
    /\ hook \in {[NoHook EXCEPT !.platform = p] : p \in {"android", "ios"}}
    /\ markdown = <<>>
    /\ features = Undefined
    /\ entry = "none"
    /\ result = <<>>

\* handleToolbarAction: the transformation is applied to the current value and
\* selection, its result becomes the state, and the platform branch follows.
HandleToolbarAction(action) ==
    LET next == applyMarkdownToolbarAction(action, text, selection, activeInlineActions)
    IN /\ text' = next.text
       /\ selection' = next.selection
       /\ activeInlineActions' = next.activeInlineActions
       /\ call' = [action |-> action, text |-> text, selection |-> selection,
                   activeInlineActions |-> activeInlineActions, n |-> call.n + 1]
       /\ hook' = IF hook.platform = "android"
                  THEN applyAndroidSelection(hook, next.selection)
                  ELSE [hook EXCEPT !.focused = @ \/ hook.inputRef]
       /\ UNCHANGED coreVars

\* handleSelectionChange on a native event of the mounted input.
HandleSelectionChange(nextSelection) ==
    /\ hook.inputRef
    /\ selection' = IF hook.suppressSelectionRef THEN selection ELSE nextSelection
    /\ UNCHANGED <<coreVars, text, activeInlineActions, call, hook>>

\* The next animation frame fires and runs the callbacks requested for it.
AnimationFrame ==
    /\ hook.pending # <<>>
    /\ hook' = RunFrame(hook.pending, [hook EXCEPT !.pending = <<>>])
    /\ UNCHANGED <<coreVars, tbVars>>

\* The TextInput mounts or unmounts: inputRef.current is set or becomes null.
InputRefChange ==
    /\ hook' = [hook EXCEPT !.inputRef = ~@, !.focused = @ /\ ~hook.inputRef]
    /\ UNCHANGED <<coreVars, tbVars>>

HookNext ==
    \/ call.n < MaxHookActions /\ \E action \in ToolbarActions : HandleToolbarAction(action)
    \/ \E nextSelection \in {[start |-> 0, end |-> 0], [start |-> 0, end |-> Len(text)]} :
          HandleSelectionChange(nextSelection)
    \/ AnimationFrame
    \/ InputRefChange

SpecHook == HookInit /\ [][HookNext]_vars

\* Animation frames keep firing while a callback is requested.
SpecHookFair == SpecHook /\ WF_vars(AnimationFrame)

(***************************************************************************)
(* Claims on the Android selection suppression                             *)
(***************************************************************************)

\* A toolbar action has requested its programmatic selection and the callback
\* that calls setNativeProps for it has not run yet.
SelectionScheduled ==
    \E k \in 1..Len(hook.pending) : hook.pending[k].stage \in {1, 2}

\* C29: Android selection suppression holds for every toolbar action. On Android,
\* under any interleaving of toolbar actions, animation frames and native
\* selection-change events, suppressSelectionRef is true from the moment a toolbar
\* action schedules its programmatic selection until after that action's
\* setNativeProps call has run, so handleSelectionChange ignores every native
\* event in that window.
C29_AndroidSuppression ==
    (hook.platform = "android" /\ SelectionScheduled) => hook.suppressSelectionRef

\* C30: selection suppression is always lifted. Whenever a toolbar action on
\* Android sets suppressSelectionRef, then, animation frames firing, it becomes
\* false again, by the third frame callback of a chain that is still pending,
\* also when the input ref becomes null in between; on another platform the flag
\* is never set.
C30_SuppressionLifted ==
    /\ hook.suppressSelectionRef ~> ~hook.suppressSelectionRef
    /\ [](hook.suppressSelectionRef => hook.pending # <<>>)
    /\ [](hook.platform # "android" => ~hook.suppressSelectionRef)

\* C30 witness: on Android the flag is set, the input ref has become null since,
\* and the callback that would call setNativeProps is the one pending.
C30_Witness ==
    /\ hook.platform = "android"
    /\ hook.suppressSelectionRef
    /\ ~hook.inputRef
    /\ Len(hook.pending) = 1
    /\ hook.pending[1].stage = 2

====
